---- MODULE Spec2Model ----
(***************************************************************************)
(* Tomasulo simulator (AndreLuizrc/Simulador-Tomasulo): the cycle driver   *)
(* stepCycle and its four stages commitCycle, writeBackCycle, executeCycle *)
(* and issueCycle, over the tables of SimulatorState.                      *)
(*                                                                         *)
(* A SimulatorState is a record `s`; every stage is an operator from a     *)
(* state record to a state record (or to a record holding the state and    *)
(* the stall flags), exactly as the TypeScript functions are.  The action  *)
(* StepCycle applies stepCycle to the record made of the variables.        *)
(*                                                                         *)
(* An optional field (x?: T) is undefined == <<>> or Some(v) == <<v>>.     *)
(* Arrays indexed by position only (reservation stations, functional       *)
(* units, lists) are sequences; the ROB and the instruction list, whose    *)
(* indices are stored in other tables, are functions over 0..n-1.          *)
(***************************************************************************)
EXTENDS Integers, Sequences, FiniteSets, TLC

VARIABLES instructions, reservationStations, functionalUnits, rob, robHead,
          robTail, registerFile, registerRenaming, memory, cycle,
          instructionsCommitted, pendingBroadcasts, branchCheckpoints,
          nextCheckpointId, pc, branchPredictor, branchesExecuted,
          branchCorrect, mispredictionCount, flushCount, issueStalls,
          dataHazardStalls, structuralHazardStalls, cyclesWithAnyStall,
          speculationEnabled, predictorHistory

vars == <<instructions, reservationStations, functionalUnits, rob, robHead,
          robTail, registerFile, registerRenaming, memory, cycle,
          instructionsCommitted, pendingBroadcasts, branchCheckpoints,
          nextCheckpointId, pc, branchPredictor, branchesExecuted,
          branchCorrect, mispredictionCount, flushCount, issueStalls,
          dataHazardStalls, structuralHazardStalls, cyclesWithAnyStall,
          speculationEnabled, predictorHistory>>

-----------------------------------------------------------------------------
(* Bounds of the model *)

\* stepCycle is applied while cycle < MaxCycle
MaxCycle == 40
\* length of the enumerated programs
MaxLen == 3
\* number of updatePredictor calls in the predictor specification
MaxUpdates == 5
\* the branches of the predictor runs sit at the pcs 0..MaxPc
MaxPc == 1

-----------------------------------------------------------------------------
(* Optional values and Map helpers *)

undefined == <<>>
Some(v) == <<v>>
IsDef(x) == x # undefined
Val(x) == x[1]
\* x ?? d
OrElse(x, d) == IF x = undefined THEN d ELSE x[1]

\* Map.get(k) ?? d
MapGet(m, k, d) == IF k \in DOMAIN m THEN m[k] ELSE d
\* new Map(m).set(k, v)
MapSet(m, k, v) == [x \in (DOMAIN m) \cup {k} |-> IF x = k THEN v ELSE m[x]]

\* Array.findIndex over a sequence: the first position satisfying P, 0 if none
FindIndex(seq, P(_)) ==
  IF \E i \in 1..Len(seq) : P(seq[i])
  THEN CHOOSE i \in 1..Len(seq) : P(seq[i]) /\ \A j \in 1..(i-1) : ~P(seq[j])
  ELSE 0

\* Array.filter over a sequence
Filter(seq, P(_)) == SelectSeq(seq, P)

\* template literal `ROB${n}`
RobTagName(n) == "ROB" \o ToString(n)

\* Math.floor(a / b), b # 0
FloorDiv(a, b) == IF b > 0 THEN a \div b ELSE (0 - a) \div (0 - b)

Min(a, b) == IF a < b THEN a ELSE b
Max(a, b) == IF a > b THEN a ELSE b

-----------------------------------------------------------------------------
(* Tables of createInitialState *)

RobSize == 8

\* the table with MUL one cycle slower
LATENCIES_slowMul == [ADD |-> 2, SUB |-> 2, MUL |-> 5, DIV |-> 8,
                      LOAD |-> 3, STORE |-> 3, BEQ |-> 1, BNE |-> 1]

LATENCIES == [ADD |-> 2, SUB |-> 2, MUL |-> 4, DIV |-> 8,
              LOAD |-> 3, STORE |-> 3, BEQ |-> 1, BNE |-> 1]

RegisterNames == {"R0", "R1", "R2", "R3", "R4", "R5", "R6", "R7"}

EmptyRS(name, type) ==
  [name |-> name, type |-> type, busy |-> FALSE, op |-> undefined,
   vj |-> undefined, vk |-> undefined, qj |-> undefined, qk |-> undefined,
   dest |-> undefined, address |-> undefined, instructionId |-> undefined]

EmptyFU(name, type) ==
  [name |-> name, type |-> type, busy |-> FALSE, instructionId |-> undefined,
   cyclesRemaining |-> 0, totalCycles |-> 0, result |-> undefined,
   operation |-> undefined, vj |-> undefined, vk |-> undefined,
   address |-> undefined]

EmptyROBEntry(i) ==
  [index |-> i, busy |-> FALSE, instructionId |-> undefined,
   type |-> undefined, destination |-> undefined, value |-> undefined,
   ready |-> FALSE, isSpeculative |-> FALSE,
   branchCheckpointId |-> undefined, address |-> undefined]

\* one Instruction of the IR, idle
Instr(op, dest, src1, src2, imm) ==
  [id |-> 0, operation |-> op, dest |-> dest, src1 |-> src1, src2 |-> src2,
   immediate |-> imm, state |-> "idle", isSpeculative |-> FALSE,
   issueTime |-> undefined, execStartTime |-> undefined,
   execEndTime |-> undefined, writebackTime |-> undefined,
   commitTime |-> undefined, robEntry |-> undefined]

\* the instruction list of a program given as a sequence: ids are positions
Program(seq) == [i \in 0..(Len(seq) - 1) |-> [seq[i + 1] EXCEPT !.id = i]]

sampleInstructions ==
  Program(<< Instr("LOAD", "R1", "", "", Some(0)),
             Instr("LOAD", "R2", "", "", Some(4)),
             Instr("ADD", "R3", "R1", "R2", undefined),
             Instr("MUL", "R4", "R3", "R1", undefined),
             Instr("SUB", "R5", "R4", "R2", undefined),
             Instr("STORE", "", "R5", "", Some(8)) >>)

createInitialState ==
  [instructions |-> sampleInstructions,
   reservationStations |->
     << EmptyRS("Add1", "ADD"), EmptyRS("Add2", "ADD"),
        EmptyRS("Mul1", "MUL"), EmptyRS("Mul2", "MUL"),
        EmptyRS("Load1", "LOAD"), EmptyRS("Load2", "LOAD"),
        EmptyRS("Store1", "STORE") >>,
   functionalUnits |->
     << EmptyFU("AddUnit1", "ADD"), EmptyFU("MulUnit1", "MUL"),
        EmptyFU("LoadUnit1", "LOAD"), EmptyFU("StoreUnit1", "STORE") >>,
   rob |-> [i \in 0..(RobSize - 1) |-> EmptyROBEntry(i)],
   robHead |-> 0,
   robTail |-> 0,
   registerFile |-> [r \in RegisterNames |-> 0],
   registerRenaming |-> << >>,
   memory |-> (0 :> 5) @@ (4 :> 3),
   cycle |-> 0,
   instructionsCommitted |-> 0,
   speculationEnabled |-> TRUE,
   pendingBroadcasts |-> << >>,
   branchCheckpoints |-> << >>,
   nextCheckpointId |-> 0,
   pc |-> 0,
   branchPredictor |-> [type |-> "2-bit", table |-> << >>],
   branchesExecuted |-> 0,
   branchCorrect |-> 0,
   mispredictionCount |-> 0,
   flushCount |-> 0,
   issueStalls |-> 0,
   dataHazardStalls |-> 0,
   structuralHazardStalls |-> 0,
   cyclesWithAnyStall |-> 0]

-----------------------------------------------------------------------------
(* state-manager.ts *)

\* findFreeReservationStation that forgets to look at the busy flag
findFreeReservationStation_ignoresBusy(type, s) ==
  LET index == FindIndex(s.reservationStations, LAMBDA rs : rs.type = type)
  IN  IF index >= 1 THEN Some(index) ELSE undefined

findFreeReservationStation(type, s) ==
  LET index == FindIndex(s.reservationStations,
                         LAMBDA rs : rs.type = type /\ ~rs.busy)
  IN  IF index >= 1 THEN Some(index) ELSE undefined

findFreeROBEntry(s) ==
  LET nextTail == (s.robTail + 1) % RobSize
  IN  IF nextTail = s.robHead /\ s.rob[s.robHead].busy
      THEN undefined
      ELSE Some(s.robTail)

isROBFull(s) ==
  LET nextTail == (s.robTail + 1) % RobSize
  IN  nextTail = s.robHead /\ s.rob[s.robHead].busy

getReservationStationType(operation) ==
  CASE operation \in {"ADD", "SUB", "BEQ", "BNE"} -> "ADD"
    [] operation \in {"MUL", "DIV"} -> "MUL"
    [] operation = "LOAD" -> "LOAD"
    [] operation = "STORE" -> "STORE"
    [] OTHER -> "undefined"

\* getRegisterValue that reads the register file without looking at the RAT
getRegisterValue_ignoresRat(reg, s) ==
  IF reg = ""
  THEN [value |-> Some(0), robTag |-> undefined]
  ELSE [value |-> Some(MapGet(s.registerFile, reg, 0)), robTag |-> undefined]

getRegisterValue(reg, s) ==
  IF reg = ""
  THEN [value |-> Some(0), robTag |-> undefined]
  ELSE LET ratIndex == FindIndex(s.registerRenaming,
                                 LAMBDA r : r.register = reg)
       IN  IF ratIndex # 0
           THEN LET tag == s.registerRenaming[ratIndex].robEntry
                    robEntry == s.rob[tag]
                IN  IF robEntry.ready /\ IsDef(robEntry.value)
                    THEN [value |-> robEntry.value, robTag |-> undefined]
                    ELSE [value |-> undefined, robTag |-> Some(tag)]
           ELSE [value |-> Some(MapGet(s.registerFile, reg, 0)),
                 robTag |-> undefined]

canIssue(instructionId, s) ==
  /\ instructionId \in DOMAIN s.instructions
  /\ s.instructions[instructionId].state = "idle"
  /\ ~isROBFull(s)
  /\ IsDef(findFreeReservationStation(
        getReservationStationType(s.instructions[instructionId].operation), s))

-----------------------------------------------------------------------------
(* rat.ts: the register alias table, a list of {register, robEntry} *)

clearRAT(rat, register) == Filter(rat, LAMBDA entry : entry.register # register)

\* updateRAT that appends without looking for an existing mapping
updateRAT_appends(rat, register, robTag) ==
  Append(rat, [register |-> register, robEntry |-> robTag])

updateRAT(rat, register, robTag) ==
  LET existingIndex == FindIndex(rat, LAMBDA entry : entry.register = register)
  IN  IF existingIndex >= 1
      THEN [rat EXCEPT ![existingIndex] =
                         [register |-> register, robEntry |-> robTag]]
      ELSE Append(rat, [register |-> register, robEntry |-> robTag])

snapshotRAT(rat) == [i \in 1..Len(rat) |-> rat[i]]

\* restoreRAT that forgets the snapshot and leaves the RAT empty
restoreRAT_empty(snapshot) == << >>

restoreRAT(snapshot) == [i \in 1..Len(snapshot) |-> snapshot[i]]

\* clearRATIfMatches that drops the mapping of the register whatever it
\* points at
clearRATIfMatches_anyTag(rat, register, robTag) ==
  Filter(rat, LAMBDA entry : entry.register # register)

clearRATIfMatches(rat, register, robTag) ==
  LET index == FindIndex(rat, LAMBDA r : r.register = register)
  IN  IF index # 0 /\ rat[index].robEntry = robTag
      THEN clearRAT(rat, register)
      ELSE rat

-----------------------------------------------------------------------------
(* memory.ts: addresses, the memory image and the branch checkpoints *)

calculateAddress(base, offset, s) ==
  IF base = ""
  THEN offset
  ELSE MapGet(s.registerFile, base, 0) + offset

loadFromMemory(address, s) == MapGet(s.memory, address, 0)

storeToMemory(address, value, s) ==
  [s EXCEPT !.memory = MapSet(s.memory, address, value)]

createCheckpoint(instructionId, branchPc, prediction, target, s) ==
  [id |-> s.nextCheckpointId,
   instructionId |-> instructionId,
   pc |-> branchPc,
   ratSnapshot |-> snapshotRAT(s.registerRenaming),
   robTailSnapshot |-> s.robTail,
   predictedTaken |-> prediction.taken,
   predictedTarget |-> target,
   resolved |-> FALSE,
   correct |-> undefined]

\* position of the checkpoint of a branch instruction, 0 if there is none
findCheckpoint(instructionId, s) ==
  FindIndex(s.branchCheckpoints, LAMBDA cp : cp.instructionId = instructionId)

removeCheckpoint(checkpointId, s) ==
  [s EXCEPT !.branchCheckpoints =
     Filter(s.branchCheckpoints, LAMBDA cp : cp.id # checkpointId)]

resolveCheckpoint(checkpointId, correct, s) ==
  [s EXCEPT !.branchCheckpoints =
     [i \in 1..Len(s.branchCheckpoints) |->
        IF s.branchCheckpoints[i].id = checkpointId
        THEN [s.branchCheckpoints[i] EXCEPT !.resolved = TRUE,
                                            !.correct = Some(correct)]
        ELSE s.branchCheckpoints[i]]]

hasUnresolvedCheckpoints(s) ==
  \E i \in 1..Len(s.branchCheckpoints) : ~s.branchCheckpoints[i].resolved

-----------------------------------------------------------------------------
(* branch-predictor.ts *)

\* the table entry of a pc, absent entries reading as Weakly-Not-Taken
PredictorEntry(branchPc, predictor) == MapGet(predictor.table, branchPc, 1)

predict2Bit(branchPc, predictor, fallthrough) ==
  LET taken == PredictorEntry(branchPc, predictor) >= 2
  IN  [taken |-> taken, target |-> IF taken THEN 0 ELSE fallthrough]

predictBranch(branchPc, predictor, fallthrough) ==
  CASE predictor.type = "static-taken" -> [taken |-> TRUE, target |-> 0]
    [] predictor.type = "static-not-taken" ->
         [taken |-> FALSE, target |-> fallthrough]
    [] predictor.type = "2-bit" -> predict2Bit(branchPc, predictor, fallthrough)
    [] OTHER -> [taken |-> FALSE, target |-> fallthrough]

\* updatePredictor without the saturation at the ends of the range
updatePredictor_unsaturated(branchPc, actualTaken, predictor) ==
  IF predictor.type # "2-bit"
  THEN predictor
  ELSE LET state == MapGet(predictor.table, branchPc, 1)
           newState == IF actualTaken THEN state + 1 ELSE state - 1
       IN  [predictor EXCEPT !.table = MapSet(predictor.table, branchPc, newState)]

\* the predictor after updatePredictor(pc, actualTaken, predictor)
updatePredictor(branchPc, actualTaken, predictor) ==
  IF predictor.type # "2-bit"
  THEN predictor
  ELSE LET state == PredictorEntry(branchPc, predictor)
           newState == IF actualTaken
                       THEN Min(3, state + 1)
                       ELSE Max(0, state - 1)
       IN  [predictor EXCEPT !.table = MapSet(predictor.table, branchPc, newState)]

-----------------------------------------------------------------------------
(* issue-cycle.ts *)

IsBranch(operation) == operation \in {"BEQ", "BNE"}

\* state.pc || instruction.id
PcOrId(s, instruction) == IF s.pc # 0 THEN s.pc ELSE instruction.id

\* the oldest instruction still idle: instructions.find(inst => inst.state === "idle")
FirstIdle(s) ==
  LET idle == {i \in DOMAIN s.instructions : s.instructions[i].state = "idle"}
  IN  IF idle = {} THEN undefined
      ELSE Some(CHOOSE i \in idle : \A j \in idle : i <= j)

robTypeOf(operation) ==
  CASE operation = "LOAD" -> "LOAD"
    [] operation = "STORE" -> "STORE"
    [] IsBranch(operation) -> "BRANCH"
    [] OTHER -> "ALU"

\* the part of issueCycle after the stall checks (lines 63-234)
issueInstruction(instruction, robIndex, rsIndex, s) ==
  LET src1Info == getRegisterValue(instruction.src1, s)
      src2Info == getRegisterValue(instruction.src2, s)
      robType == robTypeOf(instruction.operation)
      address ==
        IF instruction.operation = "LOAD"
        THEN Some(calculateAddress(instruction.src1,
                                   OrElse(instruction.immediate, 0), s))
        ELSE IF instruction.operation = "STORE"
        THEN Some(calculateAddress(instruction.dest,
                                   OrElse(instruction.immediate, 0), s))
        ELSE undefined
      speculative == hasUnresolvedCheckpoints(s)
      oldestUnresolved ==
        FindIndex(s.branchCheckpoints, LAMBDA cp : ~cp.resolved)
      branchPc == PcOrId(s, instruction)
      branchTarget == branchPc + OrElse(instruction.immediate, 1)
      fallthrough == branchPc + 1
      prediction == predictBranch(branchPc, s.branchPredictor, fallthrough)
      predictedTarget == IF prediction.taken THEN branchTarget ELSE fallthrough
      checkpoint == createCheckpoint(instruction.id, branchPc, prediction,
                                     predictedTarget, s)
      speculatedBranch == IsBranch(instruction.operation) /\ s.speculationEnabled
      isInstructionSpeculative == IF speculatedBranch THEN FALSE ELSE speculative
      checkpointId ==
        IF speculatedBranch THEN Some(checkpoint.id)
        ELSE IF speculative THEN Some(s.branchCheckpoints[oldestUnresolved].id)
        ELSE undefined
      s1 == IF speculatedBranch
            THEN [s EXCEPT !.branchCheckpoints = Append(@, checkpoint),
                           !.nextCheckpointId = @ + 1,
                           !.pc = predictedTarget]
            ELSE IF ~IsBranch(instruction.operation)
            THEN [s EXCEPT !.pc = branchPc + 1]
            ELSE s
      newRobEntry ==
        [index |-> robIndex, busy |-> TRUE,
         instructionId |-> Some(instruction.id), type |-> Some(robType),
         destination |-> IF instruction.dest = "" THEN undefined
                         ELSE Some(instruction.dest),
         value |-> undefined, ready |-> FALSE,
         isSpeculative |-> isInstructionSpeculative,
         branchCheckpointId |-> checkpointId, address |-> address]
      newRS ==
        [s1.reservationStations[rsIndex] EXCEPT
           !.busy = TRUE,
           !.op = Some(instruction.operation),
           !.vj = src1Info.value,
           !.vk = src2Info.value,
           !.qj = IF IsDef(src1Info.robTag)
                  THEN Some(RobTagName(Val(src1Info.robTag))) ELSE undefined,
           !.qk = IF IsDef(src2Info.robTag)
                  THEN Some(RobTagName(Val(src2Info.robTag))) ELSE undefined,
           !.dest = Some(RobTagName(robIndex)),
           !.address = address,
           !.instructionId = Some(instruction.id)]
      newRegisterRenaming ==
        IF instruction.dest # "" /\ instruction.operation # "STORE"
           /\ ~IsBranch(instruction.operation)
        THEN updateRAT(s1.registerRenaming, instruction.dest, robIndex)
        ELSE s1.registerRenaming
  IN  [s1 EXCEPT
         !.instructions[instruction.id] =
            [@ EXCEPT !.state = "issued", !.issueTime = Some(s1.cycle),
                      !.robEntry = Some(robIndex),
                      !.isSpeculative = isInstructionSpeculative],
         !.reservationStations[rsIndex] = newRS,
         !.rob[robIndex] = newRobEntry,
         !.robTail = (robIndex + 1) % RobSize,
         !.registerRenaming = newRegisterRenaming]

\* issueCycle without the checks of the reorder buffer: it stalls only for
\* want of a reservation station and allocates at the tail
issueCycle_noRobCheck(s) ==
  LET first == FirstIdle(s)
  IN  IF first = undefined
      THEN [state |-> s, issueStallOccurred |-> FALSE]
      ELSE LET instruction == s.instructions[Val(first)]
               rsType == getReservationStationType(instruction.operation)
               rsIndex == findFreeReservationStation(rsType, s)
           IN  IF rsIndex = undefined
               THEN [state |-> s, issueStallOccurred |-> TRUE]
               ELSE [state |-> issueInstruction(instruction, s.robTail,
                                                Val(rsIndex), s),
                     issueStallOccurred |-> FALSE]

issueCycle(s) ==
  LET first == FirstIdle(s)
  IN  IF first = undefined
      THEN [state |-> s, issueStallOccurred |-> FALSE]
      ELSE LET instruction == s.instructions[Val(first)]
               robIndex == findFreeROBEntry(s)
               rsType == getReservationStationType(instruction.operation)
               rsIndex == findFreeReservationStation(rsType, s)
               issueStallOccurredThisCycle ==
                 \/ ~canIssue(instruction.id, s)
                 \/ robIndex = undefined
                 \/ rsIndex = undefined
           IN  IF issueStallOccurredThisCycle
               THEN [state |-> s, issueStallOccurred |-> TRUE]
               ELSE [state |-> issueInstruction(instruction, Val(robIndex),
                                                Val(rsIndex), s),
                     issueStallOccurred |-> FALSE]

-----------------------------------------------------------------------------
(* execute-cycle.ts *)

\* computeResult with the operands of SUB exchanged
computeResult_swappedSub(fu, s) ==
  LET op == OrElse(fu.operation, "undefined")
      vj == OrElse(fu.vj, 0)
      vk == OrElse(fu.vk, 0)
  IN  CASE op = "ADD" -> vj + vk
        [] op = "SUB" -> vk - vj
        [] op = "MUL" -> vj * vk
        [] op = "DIV" -> IF vk # 0 THEN FloorDiv(vj, vk) ELSE 0
        [] op = "LOAD" -> MapGet(s.memory, OrElse(fu.address, 0), 0)
        [] op = "STORE" -> vj
        [] op \in {"BEQ", "BNE"} -> IF vj = vk THEN 1 ELSE 0
        [] OTHER -> 0

computeResult(fu, s) ==
  LET op == OrElse(fu.operation, "undefined")
      vj == OrElse(fu.vj, 0)
      vk == OrElse(fu.vk, 0)
  IN  CASE op = "ADD" -> vj + vk
        [] op = "SUB" -> vj - vk
        [] op = "MUL" -> vj * vk
        [] op = "DIV" -> IF vk # 0 THEN FloorDiv(vj, vk) ELSE 0
        [] op = "LOAD" -> loadFromMemory(OrElse(fu.address, 0), s)
        [] op = "STORE" -> vj
        [] op \in {"BEQ", "BNE"} -> IF vj = vk THEN 1 ELSE 0
        [] OTHER -> 0

\* dispatchLoop without the clearing of the station (lines 124-137)
RECURSIVE dispatchLoop_keepsStation(_, _, _)
dispatchLoop_keepsStation(rsIndex, acc, s) ==
  IF rsIndex > Len(acc.reservationStations)
  THEN acc
  ELSE
    LET rs == acc.reservationStations[rsIndex]
    IN
    IF ~rs.busy \/ rs.instructionId = undefined
    THEN dispatchLoop_keepsStation(rsIndex + 1, acc, s)
    ELSE
      LET id == Val(rs.instructionId)
          instruction == acc.instructions[id]
          operandsReady == rs.qj = undefined /\ rs.qk = undefined
          alreadyBound ==
            \E i \in 1..Len(acc.functionalUnits) :
               acc.functionalUnits[i].instructionId = rs.instructionId
          fuIndex == FindIndex(acc.functionalUnits,
                               LAMBDA fu : fu.type = rs.type /\ ~fu.busy)
          latency == LATENCIES[Val(rs.op)]
      IN
      IF id \notin DOMAIN acc.instructions \/ instruction.state # "issued"
      THEN dispatchLoop_keepsStation(rsIndex + 1, acc, s)
      ELSE IF ~operandsReady
      THEN dispatchLoop_keepsStation(rsIndex + 1, [acc EXCEPT !.dataHazardOccurred = TRUE], s)
      ELSE IF alreadyBound
      THEN dispatchLoop_keepsStation(rsIndex + 1, acc, s)
      ELSE IF fuIndex = 0
      THEN dispatchLoop_keepsStation(rsIndex + 1,
                        [acc EXCEPT !.structuralHazardOccurred = TRUE], s)
      ELSE dispatchLoop_keepsStation(rsIndex + 1,
             [acc EXCEPT
                !.functionalUnits[fuIndex] =
                   [@ EXCEPT !.busy = TRUE,
                             !.instructionId = rs.instructionId,
                             !.cyclesRemaining = latency,
                             !.totalCycles = latency,
                             !.result = undefined,
                             !.operation = rs.op,
                             !.vj = rs.vj,
                             !.vk = rs.vk,
                             !.address = rs.address],
                !.instructions[id] =
                   [@ EXCEPT !.state = "executing",
                             !.execStartTime = Some(s.cycle)]],
             s)

\* the body of the loop over the reservation stations, from station rsIndex on;
\* acc holds newReservationStations, newFunctionalUnits, newInstructions and
\* the two hazard flags
RECURSIVE dispatchLoop(_, _, _)
dispatchLoop(rsIndex, acc, s) ==
  IF rsIndex > Len(acc.reservationStations)
  THEN acc
  ELSE
    LET rs == acc.reservationStations[rsIndex]
    IN
    IF ~rs.busy \/ rs.instructionId = undefined
    THEN dispatchLoop(rsIndex + 1, acc, s)
    ELSE
      LET id == Val(rs.instructionId)
          instruction == acc.instructions[id]
          operandsReady == rs.qj = undefined /\ rs.qk = undefined
          alreadyBound ==
            \E i \in 1..Len(acc.functionalUnits) :
               acc.functionalUnits[i].instructionId = rs.instructionId
          fuIndex == FindIndex(acc.functionalUnits,
                               LAMBDA fu : fu.type = rs.type /\ ~fu.busy)
          latency == LATENCIES[Val(rs.op)]
      IN
      IF id \notin DOMAIN acc.instructions \/ instruction.state # "issued"
      THEN dispatchLoop(rsIndex + 1, acc, s)
      ELSE IF ~operandsReady
      THEN dispatchLoop(rsIndex + 1, [acc EXCEPT !.dataHazardOccurred = TRUE], s)
      ELSE IF alreadyBound
      THEN dispatchLoop(rsIndex + 1, acc, s)
      ELSE IF fuIndex = 0
      THEN dispatchLoop(rsIndex + 1,
                        [acc EXCEPT !.structuralHazardOccurred = TRUE], s)
      ELSE dispatchLoop(rsIndex + 1,
             [acc EXCEPT
                !.functionalUnits[fuIndex] =
                   [@ EXCEPT !.busy = TRUE,
                             !.instructionId = rs.instructionId,
                             !.cyclesRemaining = latency,
                             !.totalCycles = latency,
                             !.result = undefined,
                             !.operation = rs.op,
                             !.vj = rs.vj,
                             !.vk = rs.vk,
                             !.address = rs.address],
                !.instructions[id] =
                   [@ EXCEPT !.state = "executing",
                             !.execStartTime = Some(s.cycle)],
                !.reservationStations[rsIndex] = EmptyRS(rs.name, rs.type)],
             s)

dispatchToFunctionalUnits(s) ==
  LET acc == dispatchLoop(1,
               [reservationStations |-> s.reservationStations,
                functionalUnits |-> s.functionalUnits,
                instructions |-> s.instructions,
                dataHazardOccurred |-> FALSE,
                structuralHazardOccurred |-> FALSE], s)
  IN  [state |-> [s EXCEPT !.reservationStations = acc.reservationStations,
                           !.functionalUnits = acc.functionalUnits,
                           !.instructions = acc.instructions],
       dataHazardOccurred |-> acc.dataHazardOccurred,
       structuralHazardOccurred |-> acc.structuralHazardOccurred]

\* the outcome Execute computes when it resolves a branch (lines 204-208)
actualTakenAtExecute(operation, fu) ==
  LET vj == OrElse(fu.vj, 0)
      vk == OrElse(fu.vk, 0)
  IN  IF operation = "BEQ" THEN vj = vk ELSE vj # vk

\* the branch resolution of updateFunctionalUnits (lines 196-225): newState
\* after the checkpoint of a branch that has just computed its result is settled
resolveBranch(instruction, fu, newState) ==
  LET cpIndex == findCheckpoint(instruction.id, newState)
      checkpoint == newState.branchCheckpoints[cpIndex]
      actualTaken == actualTakenAtExecute(instruction.operation, fu)
      branchTarget == checkpoint.pc + OrElse(instruction.immediate, 1)
      fallthrough == checkpoint.pc + 1
      actualTarget == IF actualTaken THEN branchTarget ELSE fallthrough
      predictionCorrect == /\ checkpoint.predictedTaken = actualTaken
                           /\ checkpoint.predictedTarget = actualTarget
  IN  IF cpIndex # 0 /\ ~checkpoint.resolved
      THEN resolveCheckpoint(checkpoint.id, predictionCorrect, newState)
      ELSE newState

\* the loop over the functional units, from unit fuIndex on; acc holds
\* newFunctionalUnits, newInstructions and newState (the checkpoints)
RECURSIVE updateLoop(_, _, _)
updateLoop(fuIndex, acc, s) ==
  IF fuIndex > Len(s.functionalUnits)
  THEN acc
  ELSE
    LET fu == s.functionalUnits[fuIndex]
    IN
    IF ~fu.busy \/ fu.instructionId = undefined
       \/ Val(fu.instructionId) \notin DOMAIN s.instructions
    THEN updateLoop(fuIndex + 1, acc, s)
    ELSE
      LET id == Val(fu.instructionId)
          instruction == acc.instructions[id]
      IN
      IF fu.cyclesRemaining > 0
      THEN IF fu.cyclesRemaining = 1
           THEN updateLoop(fuIndex + 1,
                  [functionalUnits |->
                     [acc.functionalUnits EXCEPT ![fuIndex] =
                        [fu EXCEPT !.cyclesRemaining = fu.cyclesRemaining - 1,
                                   !.result = Some(computeResult(fu, s))]],
                   instructions |->
                     [acc.instructions EXCEPT ![id] =
                        [instruction EXCEPT !.state = "ready",
                                            !.execEndTime = Some(s.cycle)]],
                   newState |->
                     IF IsBranch(instruction.operation)
                     THEN resolveBranch(instruction, fu, acc.newState)
                     ELSE acc.newState], s)
           ELSE updateLoop(fuIndex + 1,
                  [acc EXCEPT !.functionalUnits[fuIndex] =
                     [fu EXCEPT !.cyclesRemaining = fu.cyclesRemaining - 1]], s)
      ELSE updateLoop(fuIndex + 1, acc, s)

updateFunctionalUnits(s) ==
  LET acc == updateLoop(1, [functionalUnits |-> s.functionalUnits,
                            instructions |-> s.instructions,
                            newState |-> s], s)
  IN  [acc.newState EXCEPT !.functionalUnits = acc.functionalUnits,
                           !.instructions = acc.instructions]

executeCycle(s) ==
  LET dispatchResult == dispatchToFunctionalUnits(s)
  IN  [state |-> updateFunctionalUnits(dispatchResult.state),
       dataHazardOccurred |-> dispatchResult.dataHazardOccurred,
       structuralHazardOccurred |-> dispatchResult.structuralHazardOccurred]

-----------------------------------------------------------------------------
(* cdb.ts and writeback-cycle.ts *)

\* a functional unit that holds a computed result not yet broadcast
ReadyForBroadcast(fu, s) ==
  /\ fu.busy
  /\ fu.cyclesRemaining = 0
  /\ IsDef(fu.result)
  /\ IsDef(fu.instructionId)
  /\ Val(fu.instructionId) \in DOMAIN s.instructions
  /\ s.instructions[Val(fu.instructionId)].state = "ready"
  /\ IsDef(s.instructions[Val(fu.instructionId)].robEntry)

BroadcastOf(fu, s) ==
  [robTag |-> Val(s.instructions[Val(fu.instructionId)].robEntry),
   value |-> Val(fu.result),
   instructionId |-> Val(fu.instructionId)]

\* the broadcasts of all functional units holding a result, in unit order
collectReadyBroadcasts(s) ==
  LET ready == Filter(s.functionalUnits, LAMBDA fu : ReadyForBroadcast(fu, s))
  IN  [i \in 1..Len(ready) |-> BroadcastOf(ready[i], s)]

\* broadcast that wakes only the first operand of a waiting station
broadcast_onlyQj(b, s) ==
  [s EXCEPT
     !.rob = [idx \in DOMAIN s.rob |->
                IF idx = b.robTag
                THEN [s.rob[idx] EXCEPT !.value = Some(b.value), !.ready = TRUE]
                ELSE s.rob[idx]],
     !.reservationStations =
        [i \in 1..Len(s.reservationStations) |->
           LET rs == s.reservationStations[i]
               hitJ == rs.qj = Some(RobTagName(b.robTag))
           IN  [rs EXCEPT !.vj = IF hitJ THEN Some(b.value) ELSE @,
                          !.qj = IF hitJ THEN undefined ELSE @]]]

broadcast(b, s) ==
  [s EXCEPT
     !.rob = [idx \in DOMAIN s.rob |->
                IF idx = b.robTag
                THEN [s.rob[idx] EXCEPT !.value = Some(b.value), !.ready = TRUE]
                ELSE s.rob[idx]],
     !.reservationStations =
        [i \in 1..Len(s.reservationStations) |->
           LET rs == s.reservationStations[i]
               hitJ == rs.qj = Some(RobTagName(b.robTag))
               hitK == rs.qk = Some(RobTagName(b.robTag))
           IN  [rs EXCEPT !.vj = IF hitJ THEN Some(b.value) ELSE @,
                          !.qj = IF hitJ THEN undefined ELSE @,
                          !.vk = IF hitK THEN Some(b.value) ELSE @,
                          !.qk = IF hitK THEN undefined ELSE @]]]

\* collectIntoQueue that queues every ready unit, queued before or not
collectIntoQueue_noDedup(s) == s.pendingBroadcasts \o collectReadyBroadcasts(s)

\* newQueue after the ready units are appended (lines 17-27): a unit is
\* skipped when its instruction was queued before the call, the Set
\* queuedInstructions being built once, before the loop
collectIntoQueue(s) ==
  LET fresh == Filter(collectReadyBroadcasts(s),
                 LAMBDA b : \A i \in 1..Len(s.pendingBroadcasts) :
                               s.pendingBroadcasts[i].instructionId # b.instructionId)
  IN  s.pendingBroadcasts \o fresh

\* writeBackCycle draining the whole queue in one call instead of its head
writeBackCycle_drainsQueue(s) ==
  LET newQueue == collectIntoQueue(s)
      queued == {newQueue[k].instructionId : k \in 1..Len(newQueue)}
      tags == {newQueue[k].robTag : k \in 1..Len(newQueue)}
      valueOf(tag) ==
        newQueue[CHOOSE k \in 1..Len(newQueue) : newQueue[k].robTag = tag].value
      hit(q) == \E tag \in tags : q = Some(RobTagName(tag))
      valueFor(q) == valueOf(CHOOSE tag \in tags : q = Some(RobTagName(tag)))
  IN  [s EXCEPT
         !.rob = [idx \in DOMAIN s.rob |->
                    IF idx \in tags
                    THEN [s.rob[idx] EXCEPT !.value = Some(valueOf(idx)),
                                            !.ready = TRUE]
                    ELSE s.rob[idx]],
         !.reservationStations =
            [i \in 1..Len(s.reservationStations) |->
               LET rs == s.reservationStations[i]
               IN  [rs EXCEPT
                      !.vj = IF hit(rs.qj) THEN Some(valueFor(rs.qj)) ELSE @,
                      !.qj = IF hit(rs.qj) THEN undefined ELSE @,
                      !.vk = IF hit(rs.qk) THEN Some(valueFor(rs.qk)) ELSE @,
                      !.qk = IF hit(rs.qk) THEN undefined ELSE @]],
         !.functionalUnits =
            [i \in 1..Len(s.functionalUnits) |->
               LET fu == s.functionalUnits[i]
               IN  IF IsDef(fu.instructionId) /\ Val(fu.instructionId) \in queued
                   THEN EmptyFU(fu.name, fu.type)
                   ELSE fu],
         !.instructions =
            [i \in DOMAIN s.instructions |->
               IF i \in queued
               THEN [s.instructions[i] EXCEPT
                       !.state = "writeback",
                       !.writebackTime = Some(s.cycle)]
               ELSE s.instructions[i]],
         !.pendingBroadcasts = << >>]

writeBackCycle(s) ==
  LET newQueue == collectIntoQueue(s)
  IN  IF newQueue = << >>
      THEN [s EXCEPT !.pendingBroadcasts = newQueue]
      ELSE
        LET broadcastData == Head(newQueue)
            fuIndex == FindIndex(s.functionalUnits,
                         LAMBDA fu : fu.instructionId = Some(broadcastData.instructionId))
            newState == broadcast(broadcastData, s)
            id == broadcastData.instructionId
        IN  [newState EXCEPT
               !.functionalUnits =
                  IF fuIndex # 0
                  THEN [@ EXCEPT ![fuIndex] = EmptyFU(@.name, @.type)]
                  ELSE @,
               !.instructions =
                  IF id \in DOMAIN @
                  THEN [@ EXCEPT ![id] =
                          [@ EXCEPT !.state = "writeback",
                                    !.writebackTime = Some(newState.cycle)]]
                  ELSE @,
               !.pendingBroadcasts = Tail(newQueue)]

-----------------------------------------------------------------------------
(* flush.ts *)

\* the ROB indices the loop of flushSpeculativeState visits: from the
\* checkpoint's tail snapshot up to (excluding) the current tail, circularly
DiscardedRange(snapshot, tail) ==
  {i \in 0..(RobSize - 1) :
     ((i - snapshot) % RobSize) < ((tail - snapshot) % RobSize)}

\* flushSpeculativeState that rolls the structures back but leaves the
\* instructions of the wrong path in the state they had
flushSpeculativeState_keepsStates(checkpoint, s) ==
  LET discarded == DiscardedRange(checkpoint.robTailSnapshot, s.robTail)
      speculativeAt(instructionId) ==
        /\ Val(instructionId) \in DOMAIN s.instructions
        /\ s.instructions[Val(instructionId)].isSpeculative
  IN  [s EXCEPT
         !.registerRenaming = restoreRAT(checkpoint.ratSnapshot),
         !.rob = [i \in DOMAIN s.rob |->
                    IF i \in discarded THEN EmptyROBEntry(i) ELSE s.rob[i]],
         !.robTail = checkpoint.robTailSnapshot,
         !.reservationStations =
            [i \in 1..Len(s.reservationStations) |->
               LET rs == s.reservationStations[i]
               IN  IF rs.busy /\ IsDef(rs.instructionId)
                      /\ speculativeAt(rs.instructionId)
                   THEN EmptyRS(rs.name, rs.type)
                   ELSE rs],
         !.functionalUnits =
            [i \in 1..Len(s.functionalUnits) |->
               LET fu == s.functionalUnits[i]
               IN  IF fu.busy /\ IsDef(fu.instructionId)
                      /\ speculativeAt(fu.instructionId)
                   THEN EmptyFU(fu.name, fu.type)
                   ELSE fu],
         !.flushCount = @ + 1]

\* flushSpeculativeState that frees the stations of speculative instructions
\* but lets the functional units run on
flushSpeculativeState_keepsUnits(checkpoint, s) ==
  LET discarded == DiscardedRange(checkpoint.robTailSnapshot, s.robTail)
      speculativeAt(instructionId) ==
        /\ Val(instructionId) \in DOMAIN s.instructions
        /\ s.instructions[Val(instructionId)].isSpeculative
  IN  [s EXCEPT
         !.registerRenaming = restoreRAT(checkpoint.ratSnapshot),
         !.rob = [i \in DOMAIN s.rob |->
                    IF i \in discarded THEN EmptyROBEntry(i) ELSE s.rob[i]],
         !.robTail = checkpoint.robTailSnapshot,
         !.reservationStations =
            [i \in 1..Len(s.reservationStations) |->
               LET rs == s.reservationStations[i]
               IN  IF ~rs.busy \/ rs.instructionId = undefined
                   THEN rs
                   ELSE IF speculativeAt(rs.instructionId)
                   THEN EmptyRS(rs.name, rs.type)
                   ELSE rs],
         !.instructions =
            [i \in DOMAIN s.instructions |->
               LET instr == s.instructions[i]
               IN  IF /\ instr.isSpeculative
                      /\ instr.id > checkpoint.instructionId
                      /\ instr.state # "committed"
                      /\ instr.state # "idle"
                   THEN [instr EXCEPT !.state = "flushed",
                                      !.isSpeculative = FALSE]
                   ELSE instr],
         !.flushCount = @ + 1]

flushSpeculativeState(checkpoint, s) ==
  LET discarded == DiscardedRange(checkpoint.robTailSnapshot, s.robTail)
      speculativeAt(instructionId) ==
        /\ Val(instructionId) \in DOMAIN s.instructions
        /\ s.instructions[Val(instructionId)].isSpeculative
  IN  [s EXCEPT
         !.registerRenaming = restoreRAT(checkpoint.ratSnapshot),
         !.rob = [i \in DOMAIN s.rob |->
                    IF i \in discarded THEN EmptyROBEntry(i) ELSE s.rob[i]],
         !.robTail = checkpoint.robTailSnapshot,
         !.reservationStations =
            [i \in 1..Len(s.reservationStations) |->
               LET rs == s.reservationStations[i]
               IN  IF ~rs.busy \/ rs.instructionId = undefined
                   THEN rs
                   ELSE IF speculativeAt(rs.instructionId)
                   THEN EmptyRS(rs.name, rs.type)
                   ELSE rs],
         !.functionalUnits =
            [i \in 1..Len(s.functionalUnits) |->
               LET fu == s.functionalUnits[i]
               IN  IF ~fu.busy \/ fu.instructionId = undefined
                   THEN fu
                   ELSE IF speculativeAt(fu.instructionId)
                   THEN EmptyFU(fu.name, fu.type)
                   ELSE fu],
         !.instructions =
            [i \in DOMAIN s.instructions |->
               LET instr == s.instructions[i]
               IN  IF /\ instr.isSpeculative
                      /\ instr.id > checkpoint.instructionId
                      /\ instr.state # "committed"
                      /\ instr.state # "idle"
                   THEN [instr EXCEPT !.state = "flushed",
                                      !.isSpeculative = FALSE]
                   ELSE instr],
         !.flushCount = @ + 1]

-----------------------------------------------------------------------------
(* commit-cycle.ts *)

\* commitStalls without the check of the checkpoint of a speculative entry
commitStalls_ignoresSpeculation(s) ==
  LET headEntry == s.rob[s.robHead]
  IN  \/ ~headEntry.busy
      \/ ~headEntry.ready
      \/ headEntry.instructionId = undefined
      \/ Val(headEntry.instructionId) \notin DOMAIN s.instructions

\* commitStalls that forgets the ready flag of the head entry
commitStalls_ignoresReady(s) ==
  LET headEntry == s.rob[s.robHead]
      cpIndex == FindIndex(s.branchCheckpoints,
                           LAMBDA cp : Some(cp.id) = headEntry.branchCheckpointId)
  IN  \/ ~headEntry.busy
      \/ headEntry.instructionId = undefined
      \/ Val(headEntry.instructionId) \notin DOMAIN s.instructions
      \/ /\ headEntry.isSpeculative
         /\ IsDef(headEntry.branchCheckpointId)
         /\ cpIndex # 0
         /\ ~s.branchCheckpoints[cpIndex].resolved

\* the early returns of commitCycle (lines 22-50): nothing retires
commitStalls(s) ==
  LET headEntry == s.rob[s.robHead]
      cpIndex == FindIndex(s.branchCheckpoints,
                           LAMBDA cp : Some(cp.id) = headEntry.branchCheckpointId)
  IN  \/ ~headEntry.busy
      \/ ~headEntry.ready
      \/ headEntry.instructionId = undefined
      \/ Val(headEntry.instructionId) \notin DOMAIN s.instructions
      \/ /\ headEntry.isSpeculative
         /\ IsDef(headEntry.branchCheckpointId)
         /\ cpIndex # 0
         /\ ~s.branchCheckpoints[cpIndex].resolved

\* the outcome Commit reads off the head entry (line 92)
actualTakenAtCommit(headEntry) == headEntry.value = Some(1)

\* !checkpoint.correct
NotCorrect(checkpoint) ==
  checkpoint.correct = undefined \/ ~Val(checkpoint.correct)

\* case "BRANCH" (lines 86-138)
commitBranch(instruction, headEntry, s) ==
  LET cpIndex == findCheckpoint(instruction.id, s)
      checkpoint == s.branchCheckpoints[cpIndex]
      actualTaken == actualTakenAtCommit(headEntry)
      branchTarget == checkpoint.pc + OrElse(instruction.immediate, 1)
      fallthrough == checkpoint.pc + 1
      correctTarget == IF actualTaken THEN branchTarget ELSE fallthrough
      s1 == IF NotCorrect(checkpoint)
            THEN [flushSpeculativeState(checkpoint, s) EXCEPT
                    !.pc = correctTarget,
                    !.mispredictionCount = @ + 1]
            ELSE [s EXCEPT !.branchCorrect = @ + 1]
      s2 == [s1 EXCEPT
               !.branchPredictor =
                  updatePredictor(checkpoint.pc, actualTaken, @),
               !.branchesExecuted = @ + 1]
  IN  IF cpIndex # 0 THEN removeCheckpoint(checkpoint.id, s2) ELSE s

\* the switch on headEntry.type (lines 55-139)
commitByType(instruction, headEntry, s) ==
  CASE headEntry.type \in {Some("ALU"), Some("LOAD")} ->
         IF IsDef(headEntry.destination) /\ IsDef(headEntry.value)
         THEN [s EXCEPT
                 !.registerFile = MapSet(@, Val(headEntry.destination),
                                         Val(headEntry.value)),
                 !.registerRenaming =
                    clearRATIfMatches(@, Val(headEntry.destination), s.robHead)]
         ELSE s
    [] headEntry.type = Some("STORE") ->
         IF IsDef(headEntry.address) /\ IsDef(headEntry.value)
         THEN storeToMemory(Val(headEntry.address), Val(headEntry.value), s)
         ELSE s
    [] headEntry.type = Some("BRANCH") -> commitBranch(instruction, headEntry, s)
    [] OTHER -> s

commitCycle(s) ==
  IF commitStalls(s)
  THEN s
  ELSE
    LET headEntry == s.rob[s.robHead]
        instructionId == Val(headEntry.instructionId)
        instruction == s.instructions[instructionId]
        newState == commitByType(instruction, headEntry, s)
    IN  [newState EXCEPT
           !.rob[s.robHead] = EmptyROBEntry(s.robHead),
           !.robHead = (s.robHead + 1) % RobSize,
           !.instructions[instructionId] =
              [@ EXCEPT !.state = "committed",
                        !.commitTime = Some(newState.cycle)],
           !.instructionsCommitted = @ + 1]

-----------------------------------------------------------------------------
(* simulator-engine.ts *)

\* stepCycle that does not count the cycle of a flush as a stall cycle
stepCycle_ignoresFlush(s) ==
  LET afterCommit == commitCycle(s)
      afterWriteBack == writeBackCycle(afterCommit)
      executeResult == executeCycle(afterWriteBack)
      issueResult == issueCycle(executeResult.state)
      currentCycleStallOccurred ==
        \/ executeResult.dataHazardOccurred
        \/ executeResult.structuralHazardOccurred
        \/ issueResult.issueStallOccurred
  IN  [issueResult.state EXCEPT
         !.cyclesWithAnyStall = IF currentCycleStallOccurred THEN @ + 1 ELSE @,
         !.cycle = @ + 1]

stepCycle(s) ==
  LET preCommitFlushCount == s.flushCount
      afterCommit == commitCycle(s)
      afterWriteBack == writeBackCycle(afterCommit)
      executeResult == executeCycle(afterWriteBack)
      issueResult == issueCycle(executeResult.state)
      currentCycleStallOccurred ==
        \/ afterCommit.flushCount > preCommitFlushCount
        \/ executeResult.dataHazardOccurred
        \/ executeResult.structuralHazardOccurred
        \/ issueResult.issueStallOccurred
  IN  [issueResult.state EXCEPT
         !.cyclesWithAnyStall = IF currentCycleStallOccurred THEN @ + 1 ELSE @,
         !.cycle = @ + 1]

-----------------------------------------------------------------------------
(* Programs loaded into the simulator (handleProgramLoaded) *)

\* the instructions the enumerated programs are made of
InstructionMenu ==
  { Instr("LOAD", "R1", "", "", Some(0)),
    Instr("ADD", "R2", "R1", "R1", undefined),
    Instr("MUL", "R1", "R1", "R2", undefined),
    Instr("STORE", "", "R1", "", Some(8)),
    Instr("BEQ", "", "R0", "R0", Some(2)),
    Instr("BNE", "", "R0", "R0", Some(2)),
    Instr("BEQ", "", "R1", "R0", Some(2)) }

\* all sequences over the menu of length 1..n
RECURSIVE SeqsUpTo(_)
SeqsUpTo(n) ==
  IF n = 0 THEN { << >> }
  ELSE LET shorter == SeqsUpTo(n - 1)
       IN  shorter \cup { Append(p, i) : p \in shorter, i \in InstructionMenu }

EnumeratedPrograms == { Program(p) : p \in SeqsUpTo(MaxLen) \ { << >> } }

\* a branch taken against the default prediction, followed by as many
\* instructions as fill the reorder buffer once round after the flush
BranchThenTen ==
  Program(<< Instr("BEQ", "", "R0", "R0", Some(2)),
             Instr("LOAD", "R1", "", "", Some(0)),
             Instr("ADD", "R2", "R0", "R0", undefined),
             Instr("MUL", "R3", "R0", "R0", undefined),
             Instr("LOAD", "R1", "", "", Some(0)),
             Instr("ADD", "R2", "R0", "R0", undefined),
             Instr("STORE", "", "R0", "", Some(8)),
             Instr("LOAD", "R1", "", "", Some(0)),
             Instr("ADD", "R2", "R0", "R0", undefined),
             Instr("MUL", "R3", "R0", "R0", undefined),
             Instr("LOAD", "R1", "", "", Some(0)) >>)

\* a branch that waits in station Add2 while additions keep station Add1 and
\* the adder busy, until the reorder buffer has filled behind it
StarvedBranch ==
  Program(<< Instr("ADD", "R1", "R0", "R0", undefined),
             Instr("ADD", "R2", "R0", "R0", undefined),
             Instr("BEQ", "", "R0", "R0", Some(2)),
             Instr("ADD", "R3", "R0", "R0", undefined),
             Instr("ADD", "R3", "R0", "R0", undefined),
             Instr("ADD", "R3", "R0", "R0", undefined),
             Instr("ADD", "R3", "R0", "R0", undefined),
             Instr("ADD", "R3", "R0", "R0", undefined),
             Instr("ADD", "R3", "R0", "R0", undefined),
             Instr("ADD", "R3", "R0", "R0", undefined) >>)

\* a division at the head of the reorder buffer while younger instructions
\* of every class issue behind it
SlowHead ==
  Program(<< Instr("DIV", "R1", "R0", "R0", undefined),
             Instr("LOAD", "R2", "", "", Some(0)),
             Instr("LOAD", "R3", "", "", Some(4)),
             Instr("ADD", "R4", "R0", "R0", undefined),
             Instr("SUB", "R5", "R0", "R0", undefined),
             Instr("STORE", "", "R0", "", Some(8)),
             Instr("MUL", "R6", "R0", "R0", undefined),
             Instr("LOAD", "R7", "", "", Some(0)),
             Instr("ADD", "R4", "R0", "R0", undefined) >>)

\* a division renamed before a branch that is mispredicted; the branch
\* commits after the division, and a second branch that reads the division's
\* register is issued right after the flush
StaleRename ==
  Program(<< Instr("DIV", "R1", "R0", "R0", undefined),
             Instr("BEQ", "", "R0", "R0", Some(2)),
             Instr("LOAD", "R2", "", "", Some(0)),
             Instr("ADD", "R3", "R0", "R0", undefined),
             Instr("STORE", "", "R0", "", Some(8)),
             Instr("LOAD", "R2", "", "", Some(0)),
             Instr("ADD", "R3", "R0", "R0", undefined),
             Instr("ADD", "R3", "R0", "R0", undefined),
             Instr("BEQ", "", "R1", "R0", Some(2)),
             Instr("ADD", "R4", "R0", "R0", undefined),
             Instr("ADD", "R5", "R0", "R0", undefined) >>)

\* a mispredicted branch followed by stores on both sides of the reorder
\* buffer's wrap-around
BranchThenStores ==
  Program(<< Instr("BEQ", "", "R0", "R0", Some(2)),
             Instr("LOAD", "R1", "", "", Some(0)),
             Instr("ADD", "R2", "R0", "R0", undefined),
             Instr("STORE", "R1", "R0", "", Some(8)),
             Instr("LOAD", "R1", "", "", Some(0)),
             Instr("ADD", "R2", "R0", "R0", undefined),
             Instr("STORE", "R1", "R2", "", Some(12)),
             Instr("LOAD", "R1", "", "", Some(0)),
             Instr("ADD", "R2", "R0", "R0", undefined),
             Instr("MUL", "R3", "R0", "R0", undefined),
             Instr("LOAD", "R1", "", "", Some(0)) >>)

\* a load and a store at odd addresses
OddAddresses ==
  Program(<< Instr("LOAD", "R1", "", "", Some(3)),
             Instr("STORE", "", "R1", "", Some(5)) >>)

\* a branch that waits for a division and is then found mispredicted, while
\* multiplications issued behind it queue for the unit the division holds
SpeculativeBacklog ==
  Program(<< Instr("DIV", "R1", "R0", "R0", undefined),
             Instr("BEQ", "", "R1", "R0", Some(2)),
             Instr("MUL", "R2", "R0", "R0", undefined),
             Instr("MUL", "R3", "R0", "R0", undefined),
             Instr("ADD", "R4", "R0", "R0", undefined),
             Instr("ADD", "R4", "R0", "R0", undefined),
             Instr("ADD", "R4", "R0", "R0", undefined),
             Instr("ADD", "R5", "R0", "R0", undefined),
             Instr("ADD", "R5", "R0", "R0", undefined) >>)

\* a load and a store whose base register is written by the load before them
BaseRegister ==
  Program(<< Instr("LOAD", "R1", "", "", Some(4)),
             Instr("LOAD", "R2", "R1", "", Some(1)),
             Instr("STORE", "R1", "R2", "", Some(5)) >>)

\* ten instructions without branches, more than the reorder buffer holds,
\* each reading the result of an older one (RAW) and three of them writing a
\* register an older one writes (WAW)
LongDependent ==
  Program(<< Instr("LOAD", "R1", "", "", Some(0)),
             Instr("LOAD", "R2", "", "", Some(4)),
             Instr("SUB", "R3", "R1", "R2", undefined),
             Instr("MUL", "R4", "R3", "R1", undefined),
             Instr("ADD", "R1", "R4", "R2", undefined),
             Instr("SUB", "R2", "R3", "R1", undefined),
             Instr("LOAD", "R3", "", "", Some(4)),
             Instr("MUL", "R5", "R2", "R3", undefined),
             Instr("ADD", "R4", "R5", "R1", undefined),
             Instr("SUB", "R6", "R4", "R2", undefined) >>)

ScenarioPrograms ==
  { BranchThenTen, StarvedBranch, SlowHead, StaleRename, BranchThenStores,
    OddAddresses, SpeculativeBacklog, BaseRegister, LongDependent }

Programs == EnumeratedPrograms \cup { sampleInstructions } \cup ScenarioPrograms

PredictorTypes == {"2-bit", "static-taken"}

-----------------------------------------------------------------------------
(* The state machine *)

\* the SimulatorState made of the variables
S ==
  [instructions |-> instructions,
   reservationStations |-> reservationStations,
   functionalUnits |-> functionalUnits,
   rob |-> rob,
   robHead |-> robHead,
   robTail |-> robTail,
   registerFile |-> registerFile,
   registerRenaming |-> registerRenaming,
   memory |-> memory,
   cycle |-> cycle,
   instructionsCommitted |-> instructionsCommitted,
   speculationEnabled |-> speculationEnabled,
   pendingBroadcasts |-> pendingBroadcasts,
   branchCheckpoints |-> branchCheckpoints,
   nextCheckpointId |-> nextCheckpointId,
   pc |-> pc,
   branchPredictor |-> branchPredictor,
   branchesExecuted |-> branchesExecuted,
   branchCorrect |-> branchCorrect,
   mispredictionCount |-> mispredictionCount,
   flushCount |-> flushCount,
   issueStalls |-> issueStalls,
   dataHazardStalls |-> dataHazardStalls,
   structuralHazardStalls |-> structuralHazardStalls,
   cyclesWithAnyStall |-> cyclesWithAnyStall]

\* the variables hold the state t
IsState(t) ==
  /\ instructions = t.instructions
  /\ reservationStations = t.reservationStations
  /\ functionalUnits = t.functionalUnits
  /\ rob = t.rob
  /\ robHead = t.robHead
  /\ robTail = t.robTail
  /\ registerFile = t.registerFile
  /\ registerRenaming = t.registerRenaming
  /\ memory = t.memory
  /\ cycle = t.cycle
  /\ instructionsCommitted = t.instructionsCommitted
  /\ speculationEnabled = t.speculationEnabled
  /\ pendingBroadcasts = t.pendingBroadcasts
  /\ branchCheckpoints = t.branchCheckpoints
  /\ nextCheckpointId = t.nextCheckpointId
  /\ pc = t.pc
  /\ branchPredictor = t.branchPredictor
  /\ branchesExecuted = t.branchesExecuted
  /\ branchCorrect = t.branchCorrect
  /\ mispredictionCount = t.mispredictionCount
  /\ flushCount = t.flushCount
  /\ issueStalls = t.issueStalls
  /\ dataHazardStalls = t.dataHazardStalls
  /\ structuralHazardStalls = t.structuralHazardStalls
  /\ cyclesWithAnyStall = t.cyclesWithAnyStall

\* createInitialState, then a program and a predictor type chosen in the UI
Init ==
  /\ \E program \in Programs, type \in PredictorTypes :
       IsState([createInitialState EXCEPT
                  !.instructions = program,
                  !.branchPredictor = [type |-> type, table |-> << >>]])
  /\ predictorHistory = << >>

\* stepping cannot change anything but the cycle counter any more
Finished(t) == [t EXCEPT !.cycle = 0] = [S EXCEPT !.cycle = 0]

\* handleStep: one call of stepCycle.  The model stops stepping at MaxCycle,
\* and when a further call would only advance the cycle counter.
StepCycle ==
  /\ cycle < MaxCycle
  /\ \E t \in {stepCycle(S)} :
       /\ ~Finished(t)
       /\ instructions' = t.instructions
       /\ reservationStations' = t.reservationStations
       /\ functionalUnits' = t.functionalUnits
       /\ rob' = t.rob
       /\ robHead' = t.robHead
       /\ robTail' = t.robTail
       /\ registerFile' = t.registerFile
       /\ registerRenaming' = t.registerRenaming
       /\ memory' = t.memory
       /\ cycle' = t.cycle
       /\ instructionsCommitted' = t.instructionsCommitted
       /\ speculationEnabled' = t.speculationEnabled
       /\ pendingBroadcasts' = t.pendingBroadcasts
       /\ branchCheckpoints' = t.branchCheckpoints
       /\ nextCheckpointId' = t.nextCheckpointId
       /\ pc' = t.pc
       /\ branchPredictor' = t.branchPredictor
       /\ branchesExecuted' = t.branchesExecuted
       /\ branchCorrect' = t.branchCorrect
       /\ mispredictionCount' = t.mispredictionCount
       /\ flushCount' = t.flushCount
       /\ issueStalls' = t.issueStalls
       /\ dataHazardStalls' = t.dataHazardStalls
       /\ structuralHazardStalls' = t.structuralHazardStalls
       /\ cyclesWithAnyStall' = t.cyclesWithAnyStall
  /\ UNCHANGED predictorHistory

Next == StepCycle

Spec == Init /\ [][Next]_vars

\* StepCycle can take a step: ENABLED <<StepCycle>>_vars, every step
\* advancing the cycle counter
StepEnabled == cycle < MaxCycle /\ ~Finished(stepCycle(S))

\* The run loop of the page calls stepCycle again and again while the
\* simulation is running: weak fairness of StepCycle, WF_vars(StepCycle),
\* written with StepEnabled for its ENABLED.
FairSpec == Spec /\ ([]<>(~StepEnabled) \/ []<><<StepCycle>>_vars)

-----------------------------------------------------------------------------
(* The branch predictor on its own: branches at the pcs 0..MaxPc resolve with
   either outcome, in any order *)

\* predictBranch is asked for the pc, then updatePredictor is told the
\* outcome; predictorHistory records the counter before and after
ResolveBranch ==
  /\ Len(predictorHistory) < MaxUpdates
  /\ \E branchPc \in 0..MaxPc, actualTaken \in BOOLEAN :
       LET after == updatePredictor(branchPc, actualTaken, branchPredictor)
       IN  /\ branchPredictor' = after
           /\ predictorHistory' =
                Append(predictorHistory,
                  [pc |-> branchPc,
                   taken |-> actualTaken,
                   before |-> PredictorEntry(branchPc, branchPredictor),
                   predicted |-> predictBranch(branchPc, branchPredictor,
                                               branchPc + 1).taken,
                   after |-> PredictorEntry(branchPc, after)])
  /\ UNCHANGED <<instructions, reservationStations, functionalUnits, rob,
                 robHead, robTail, registerFile, registerRenaming, memory,
                 cycle, instructionsCommitted, pendingBroadcasts,
                 branchCheckpoints, nextCheckpointId, pc, branchesExecuted,
                 branchCorrect, mispredictionCount, flushCount, issueStalls,
                 dataHazardStalls, structuralHazardStalls, cyclesWithAnyStall,
                 speculationEnabled>>

PredInit == IsState(createInitialState) /\ predictorHistory = << >>

PredNext == ResolveBranch

PredSpec == PredInit /\ [][PredNext]_vars

-----------------------------------------------------------------------------
(* Commit of a branch, as seen from the state a call of stepCycle starts in *)

\* the entry at the head of the reorder buffer and its instruction
HeadEntry == rob[robHead]

HeadInstruction == instructions[Val(HeadEntry.instructionId)]

\* commitCycle retires a branch that owns a checkpoint (lines 86-90)
BranchRetires ==
  /\ ~commitStalls(S)
  /\ HeadEntry.type = Some("BRANCH")
  /\ findCheckpoint(HeadInstruction.id, S) # 0

HeadCheckpoint == branchCheckpoints[findCheckpoint(HeadInstruction.id, S)]

\* ... and takes the misprediction path (line 94)
MispredictedBranchRetires == BranchRetires /\ NotCorrect(HeadCheckpoint)

\* The outcome Execute computed when it resolved a checkpoint.  Execute records
\* correct = (predictedTaken = actualTaken /\ predictedTarget = actualTarget),
\* and both targets are pc + immediate when taken and pc + 1 when not, so the
\* outcome is the prediction when it was correct and its opposite otherwise.
executeOutcome(checkpoint) == checkpoint.predictedTaken = Val(checkpoint.correct)

\* instruction i was issued after the retiring branch as a speculative
\* instruction and has not committed
SpeculatedBehindHead(i) ==
  /\ IsDef(instructions[i].issueTime)
  /\ Val(instructions[i].issueTime) > Val(HeadInstruction.issueTime)
  /\ instructions[i].isSpeculative
  /\ instructions[i].state # "committed"

-----------------------------------------------------------------------------
(* Claims *)

\* C1: any two committed instructions i < j have commitTime(i) < commitTime(j):
\* instructions commit strictly in program order.
C1_InOrderCommit ==
  \A i, j \in DOMAIN instructions :
     (/\ i < j
      /\ instructions[i].state = "committed"
      /\ instructions[j].state = "committed")
     => Val(instructions[i].commitTime) < Val(instructions[j].commitTime)

\* C2: when commitCycle retires a branch whose checkpoint records an incorrect
\* prediction, every instruction issued after the branch as speculative and
\* not committed is flushed afterwards, and flushCount has grown by exactly 1.
C2_MispredictionFlushes ==
  MispredictedBranchRetires =>
    LET t == commitCycle(S)
    IN  /\ \A i \in DOMAIN instructions :
              SpeculatedBehindHead(i) => t.instructions[i].state = "flushed"
        /\ t.flushCount = flushCount + 1

\* a mispredicted branch retires with a speculative instruction behind it,
\* which the commit flushes
C2_Witness ==
  /\ MispredictedBranchRetires
  /\ HeadCheckpoint.predictedTaken
  /\ \E i \in DOMAIN instructions :
        /\ SpeculatedBehindHead(i)
        /\ commitCycle(S).instructions[i].state = "flushed"

\* C3: after the commit of a mispredicted BEQ or BNE, pc is the branch's
\* actual target: checkpoint.pc + immediate if the branch was actually taken
\* (BEQ: vj = vk, BNE: vj # vk), the fallthrough checkpoint.pc + 1 otherwise.
C3_PcIsActualTarget ==
  (MispredictedBranchRetires /\ HeadCheckpoint.resolved) =>
    commitCycle(S).pc =
      IF executeOutcome(HeadCheckpoint)
      THEN HeadCheckpoint.pc + Val(HeadInstruction.immediate)
      ELSE HeadCheckpoint.pc + 1

\* C4: at the commit of every speculated branch the predictor entry of the
\* branch's pc is updated with the outcome Execute computed when it resolved
\* the branch's checkpoint.
C4_PredictorLearnsOutcome ==
  (BranchRetires /\ HeadCheckpoint.resolved) =>
    commitCycle(S).branchPredictor =
      updatePredictor(HeadCheckpoint.pc, executeOutcome(HeadCheckpoint),
                      branchPredictor)

\* C5: after a misprediction flush no RAT entry references a ROB index of the
\* discarded range, from the checkpoint's robTailSnapshot up to (excluding)
\* the tail before the flush, circularly.
C5_NoRatIntoDiscardedRange ==
  MispredictedBranchRetires =>
    LET t == commitCycle(S)
    IN  \A k \in 1..Len(t.registerRenaming) :
           t.registerRenaming[k].robEntry \notin
              DiscardedRange(HeadCheckpoint.robTailSnapshot, robTail)

\* the state stepCycle hands to issueCycle, after Commit, Write-Back and Execute
IssueInput == executeCycle(writeBackCycle(commitCycle(S))).state

\* advancing the tail of s would meet the head while the head entry is busy
RobFullAt(s) ==
  (s.robTail + 1) % RobSize = s.robHead /\ s.rob[s.robHead].busy

\* C6: the number of busy ROB entries never exceeds the capacity, and
\* issueCycle neither allocates a ROB entry nor advances robTail when the ROB
\* is full.
C6_RobNeverOverfull ==
  /\ Cardinality({i \in DOMAIN rob : rob[i].busy}) <= RobSize
  /\ RobFullAt(IssueInput) =>
       /\ issueCycle(IssueInput).state.rob = IssueInput.rob
       /\ issueCycle(IssueInput).state.robTail = IssueInput.robTail

\* issueCycle is called on a full ROB with an instruction waiting to issue
\* and a reservation station free for it
C6_Witness ==
  /\ RobFullAt(IssueInput)
  /\ IsDef(FirstIdle(IssueInput))
  /\ IsDef(findFreeReservationStation(
        getReservationStationType(
           IssueInput.instructions[Val(FirstIdle(IssueInput))].operation),
        IssueInput))
  /\ issueCycle(IssueInput).issueStallOccurred

\* the latencies the claim lists
ClaimedLatency ==
  [ADD |-> 2, SUB |-> 2, MUL |-> 4, DIV |-> 8,
   LOAD |-> 3, STORE |-> 3, BEQ |-> 1, BNE |-> 1]

\* C7, as stated: an instruction of latency L that is not flushed reaches
\* ready exactly L cycles after the cycle it entered executing,
\* execEndTime = execStartTime + L.
C7_ReadyAfterLatency ==
  \A i \in DOMAIN instructions :
     (instructions[i].state # "flushed" /\ IsDef(instructions[i].execEndTime))
     => Val(instructions[i].execEndTime) =
          Val(instructions[i].execStartTime)
            + ClaimedLatency[instructions[i].operation]

\* C7, amended: an instruction of latency L that is not flushed reaches ready
\* in its L-th cycle of execution, the cycle of dispatch counting as the
\* first: execEndTime = execStartTime + L - 1, and it is never still
\* executing after that cycle.
C7_ReadyInLastCycleOfLatency ==
  \A i \in DOMAIN instructions :
     instructions[i].state # "flushed" =>
       LET L == ClaimedLatency[instructions[i].operation]
       IN  /\ IsDef(instructions[i].execEndTime) =>
                Val(instructions[i].execEndTime) =
                   Val(instructions[i].execStartTime) + L - 1
           /\ instructions[i].state = "executing" =>
                cycle <= Val(instructions[i].execStartTime) + L - 1

\* a MUL has finished executing, 3 cycles after the cycle it was dispatched in
C7_Witness ==
  \E i \in DOMAIN instructions :
     /\ instructions[i].operation = "MUL"
     /\ instructions[i].state \in {"ready", "writeback", "committed"}
     /\ IsDef(instructions[i].execEndTime)
     /\ Val(instructions[i].execEndTime) =
          Val(instructions[i].execStartTime) + 3

\* C8: in a single stepCycle call at most one ROB entry changes from not
\* ready to ready.
C8_OneEntryReadyPerStep ==
  [][Cardinality({i \in DOMAIN rob : ~rob[i].ready /\ rob'[i].ready}) <= 1]_vars

\* two functional units hold a computed result at the start of a call, and
\* the call makes one ROB entry ready
C8_Witness ==
  /\ Cardinality({k \in 1..Len(functionalUnits) :
                    /\ functionalUnits[k].busy
                    /\ functionalUnits[k].cyclesRemaining = 0
                    /\ IsDef(functionalUnits[k].result)}) >= 2
  /\ Cardinality({i \in DOMAIN rob :
                    ~rob[i].ready /\ stepCycle(S).rob[i].ready}) = 1

\* the final state the claim describes for the program of createInitialState
SampleDone ==
  /\ instructionsCommitted = 6
  /\ DOMAIN instructions = 0..5
  /\ \A i \in DOMAIN instructions :
        /\ instructions[i].state = "committed"
        /\ instructions[i].operation = sampleInstructions[i].operation
        /\ instructions[i].dest = sampleInstructions[i].dest
  /\ registerFile["R1"] = 5
  /\ registerFile["R2"] = 3
  /\ registerFile["R3"] = 8
  /\ registerFile["R4"] = 40
  /\ registerFile["R5"] = 37
  /\ memory = (0 :> 5) @@ (4 :> 3) @@ (8 :> 37)
  /\ \A i \in 1..Len(reservationStations) : ~reservationStations[i].busy
  /\ \A i \in 1..Len(functionalUnits) : ~functionalUnits[i].busy
  /\ \A i \in DOMAIN rob : ~rob[i].busy

\* C9: from createInitialState repeated stepCycle eventually reaches a state
\* with all six instructions committed, R1=5, R2=3, R3=8, R4=40, R5=37,
\* memory {0:5, 4:3, 8:37} and nothing busy.
C9_SampleProgramCompletes == (S = createInitialState) ~> SampleDone

\* the sample program has run to completion
C9_Witness == SampleDone /\ cycle > 0

\* the recorded resolutions of the branch at branchPc
ResolutionsOf(branchPc) ==
  {k \in 1..Len(predictorHistory) : predictorHistory[k].pc = branchPc}

\* C10: each counter of the 2-bit predictor stays in 0..3; a taken outcome
\* yields min(3, s+1), a not-taken one max(0, s-1), an absent entry counting
\* as 1; predictBranch predicts taken iff the counter is >= 2; three taken
\* resolutions in a row from the default state leave the counter at 3 and
\* further taken resolutions keep it there.
C10_TwoBitCounterSaturates ==
  /\ \A branchPc \in DOMAIN branchPredictor.table :
        branchPredictor.table[branchPc] \in 0..3
  /\ \A k \in 1..Len(predictorHistory) :
        LET h == predictorHistory[k]
        IN  /\ h.before \in 0..3
            /\ h.after = IF h.taken
                         THEN (IF h.before + 1 > 3 THEN 3 ELSE h.before + 1)
                         ELSE (IF h.before - 1 < 0 THEN 0 ELSE h.before - 1)
            /\ h.predicted = (h.before >= 2)
            /\ (\A j \in ResolutionsOf(h.pc) : j >= k) => h.before = 1
  /\ \A branchPc \in 0..MaxPc :
        (/\ Cardinality(ResolutionsOf(branchPc)) >= 3
         /\ \A k \in ResolutionsOf(branchPc) : predictorHistory[k].taken)
        => /\ branchPc \in DOMAIN branchPredictor.table
           /\ branchPredictor.table[branchPc] = 3

\* a branch has resolved taken four times in a row from the default state:
\* the counter reached 3 and the fourth resolution kept it there
C10_Witness ==
  \E branchPc \in 0..MaxPc :
     /\ Cardinality(ResolutionsOf(branchPc)) >= 4
     /\ \A k \in ResolutionsOf(branchPc) : predictorHistory[k].taken
     /\ branchPredictor.table[branchPc] = 3
     /\ predictorHistory[Len(predictorHistory)].pc = branchPc
     /\ predictorHistory[Len(predictorHistory)].before = 3

\* no reservation station of the class of the oldest idle instruction of s
\* is free
NoStationFreeAt(s) ==
  LET class == getReservationStationType(
                  s.instructions[Val(FirstIdle(s))].operation)
  IN  \A i \in 1..Len(s.reservationStations) :
         s.reservationStations[i].type = class => s.reservationStations[i].busy

\* C11: if for the oldest idle instruction no ROB slot or no reservation
\* station of its class is free, issueCycle reports a stall and changes
\* nothing.
C11_IssueStallChangesNothing ==
  (/\ IsDef(FirstIdle(IssueInput))
   /\ (RobFullAt(IssueInput) \/ NoStationFreeAt(IssueInput)))
  => /\ issueCycle(IssueInput).issueStallOccurred
     /\ issueCycle(IssueInput).state = IssueInput

\* issueCycle is called with an instruction waiting, room in the ROB and
\* every station of its class busy, and reports the stall
C11_Witness ==
  /\ IsDef(FirstIdle(IssueInput))
  /\ ~RobFullAt(IssueInput)
  /\ NoStationFreeAt(IssueInput)
  /\ issueCycle(IssueInput).issueStallOccurred

\* the instructions commitCycle moves into state committed
RetiredByCommit ==
  {i \in DOMAIN instructions :
     /\ instructions[i].state # "committed"
     /\ commitCycle(S).instructions[i].state = "committed"}

\* C12: commitCycle retires at most one instruction per cycle, the one bound
\* to the entry at robHead; when the head entry is not busy or not ready it
\* leaves the whole state unchanged.
C12_CommitRetiresHeadOnly ==
  /\ Cardinality(RetiredByCommit) <= 1
  /\ commitCycle(S).instructionsCommitted - instructionsCommitted \in {0, 1}
  /\ \A i \in RetiredByCommit :
        /\ HeadEntry.busy
        /\ HeadEntry.instructionId = Some(i)
        /\ commitCycle(S).robHead = (robHead + 1) % RobSize
  /\ (~HeadEntry.busy \/ ~HeadEntry.ready) => commitCycle(S) = S

\* the head entry retires while a younger entry of the ROB is ready too
C12_Witness ==
  /\ RetiredByCommit # {}
  /\ \E k \in DOMAIN rob :
        k # robHead /\ rob[k].busy /\ rob[k].ready
  /\ \E k \in DOMAIN rob :
        k # robHead /\ rob[k].busy /\ ~rob[k].ready

\* the head entry is speculative and the checkpoint it names is unresolved
SpeculativeHeadUnresolved ==
  /\ HeadEntry.busy
  /\ HeadEntry.isSpeculative
  /\ \E k \in 1..Len(branchCheckpoints) :
        /\ Some(branchCheckpoints[k].id) = HeadEntry.branchCheckpointId
        /\ ~branchCheckpoints[k].resolved

\* C13: no instruction issued speculatively is committed while the checkpoint
\* it depends on is unresolved: commitCycle stalls on a speculative head
\* entry until its owning checkpoint is resolved.
C13_NoSpeculativeCommit ==
  /\ SpeculativeHeadUnresolved => commitCycle(S) = S
  /\ \A i \in RetiredByCommit :
        instructions[i].isSpeculative =>
          \A k \in 1..Len(branchCheckpoints) :
             (\/ Some(branchCheckpoints[k].id) = HeadEntry.branchCheckpointId
              \/ branchCheckpoints[k].instructionId < i)
             => branchCheckpoints[k].resolved

\* a speculative head entry holds its result while its checkpoint is
\* unresolved, and commitCycle does not retire it
C13_Witness ==
  /\ SpeculativeHeadUnresolved
  /\ HeadEntry.ready
  /\ RetiredByCommit = {}

\* commitCycle retires an entry of one of the given types
HeadRetiresAs(types) ==
  /\ ~commitStalls(S)
  /\ \E type \in types : HeadEntry.type = Some(type)

\* C14: when an ALU or LOAD entry commits, the register file maps its
\* destination to the entry's value, and the RAT mapping of that register is
\* removed iff it still points at the committing ROB index; a mapping
\* installed by a later Issue for the register is left in place.
C14_CommitWritesRegister ==
  HeadRetiresAs({"ALU", "LOAD"}) =>
    LET t == commitCycle(S)
        inRat(rat, entry) == \E k \in 1..Len(rat) : rat[k] = entry
    IN  /\ IsDef(HeadEntry.destination)
        /\ IsDef(HeadEntry.value)
        /\ t.registerFile[Val(HeadEntry.destination)] = Val(HeadEntry.value)
        /\ \A r \in RegisterNames :
              r # Val(HeadEntry.destination) =>
                 t.registerFile[r] = registerFile[r]
        /\ \A r \in RegisterNames, tag \in DOMAIN rob :
              inRat(t.registerRenaming, [register |-> r, robEntry |-> tag])
              <=> /\ inRat(registerRenaming, [register |-> r, robEntry |-> tag])
                  /\ ~(r = Val(HeadEntry.destination) /\ tag = robHead)

\* an ALU or LOAD entry commits while the RAT maps its destination to a
\* younger ROB entry, and the mapping stays
C14_Witness ==
  /\ HeadRetiresAs({"ALU", "LOAD"})
  /\ \E k \in 1..Len(registerRenaming) :
        /\ Some(registerRenaming[k].register) = HeadEntry.destination
        /\ registerRenaming[k].robEntry # robHead
        /\ \E j \in 1..Len(commitCycle(S).registerRenaming) :
              commitCycle(S).registerRenaming[j] = registerRenaming[k]

\* the states stepCycle passes from stage to stage (lines 110-125)
AfterCommit == commitCycle(S)

AfterWriteBack == writeBackCycle(AfterCommit)

AfterExecute == executeCycle(AfterWriteBack).state

AfterIssue == issueCycle(AfterExecute).state

\* writeback, execute and issue leave the register file and memory alone
OnlyCommitWrites ==
  /\ AfterWriteBack.registerFile = AfterCommit.registerFile
  /\ AfterWriteBack.memory = AfterCommit.memory
  /\ AfterExecute.registerFile = AfterCommit.registerFile
  /\ AfterExecute.memory = AfterCommit.memory
  /\ AfterIssue.registerFile = AfterCommit.registerFile
  /\ AfterIssue.memory = AfterCommit.memory

\* the address of a store is computed by issueCycle and kept in its ROB entry
StoreAddressFromIssue ==
  /\ (IsDef(FirstIdle(AfterExecute)) /\ ~issueCycle(AfterExecute).issueStallOccurred) =>
        LET instruction == AfterExecute.instructions[Val(FirstIdle(AfterExecute))]
        IN  instruction.operation = "STORE" =>
              AfterIssue.rob[AfterExecute.robTail].address =
                 Some(calculateAddress(instruction.dest,
                                       OrElse(instruction.immediate, 0),
                                       AfterExecute))
  /\ \A k \in DOMAIN rob :
        (/\ rob[k].busy /\ rob[k].type = Some("STORE")
         /\ AfterIssue.rob[k].busy
         /\ AfterIssue.rob[k].instructionId = rob[k].instructionId)
        => AfterIssue.rob[k].address = rob[k].address

\* memory changes only when a STORE retires, by the value and address of its
\* ROB entry; STORE and BRANCH retirements leave the register file alone
StoreCommit ==
  /\ HeadRetiresAs({"STORE"}) =>
        /\ IsDef(HeadEntry.address) /\ IsDef(HeadEntry.value)
        /\ AfterCommit.memory =
              MapSet(memory, Val(HeadEntry.address), Val(HeadEntry.value))
  /\ ~HeadRetiresAs({"STORE"}) => AfterCommit.memory = memory
  /\ (commitStalls(S) \/ HeadRetiresAs({"STORE", "BRANCH"}))
        => AfterCommit.registerFile = registerFile

\* stores write memory in program order
StoresInProgramOrder ==
  \A i, j \in DOMAIN instructions :
     (/\ i < j
      /\ instructions[i].operation = "STORE"
      /\ instructions[j].operation = "STORE"
      /\ IsDef(instructions[j].commitTime))
     => /\ IsDef(instructions[i].commitTime)
        /\ Val(instructions[i].commitTime) < Val(instructions[j].commitTime)

\* C15: the register file and the memory image are modified only by
\* commitCycle (writeback, execute and issue leave both unchanged); a STORE
\* changes memory only at its own commit, writing its value at the address
\* computed when it was issued; stores reach memory in program order; a STORE
\* or BRANCH commit leaves the register file unchanged.
C15_CommitOwnsRegisterFileAndMemory ==
  /\ OnlyCommitWrites
  /\ StoreAddressFromIssue
  /\ StoreCommit
  /\ StoresInProgramOrder

\* The state value handed to stepCycle, read once the call has returned.
\* Every stage copies the tables it changes ({...state}, [...array],
\* new Map(map)); the one exception is updatePredictor, which commitCycle
\* calls on newState.branchPredictor: the shallow copies share that object
\* with the argument, no stage replaces it, and table.set writes into it.
argumentAfterStepCycle(s) ==
  [s EXCEPT !.branchPredictor = stepCycle(s).branchPredictor]

\* C16: stepCycle does not modify the state value it is given: after
\* stepCycle(s) returns, every table reachable from s (instructions,
\* reservation stations, functional units, ROB, RAT, register file, memory,
\* checkpoints and the branch predictor table) has the content it had before.
C16_StepCycleLeavesArgument == argumentAfterStepCycle(S) = S

\* the state between the two steps of executeCycle (lines 32-38)
AfterDispatch == dispatchToFunctionalUnits(AfterWriteBack).state

\* the states an instruction's state field is read in during one stepCycle:
\* before it, and after each function that assigns the field
StageStates ==
  << S, AfterCommit, AfterWriteBack, AfterDispatch, AfterExecute, AfterIssue >>

LifeCycle ==
  { << "idle", "issued" >>, << "issued", "executing" >>,
    << "executing", "ready" >>, << "ready", "writeback" >>,
    << "writeback", "committed" >> }

TerminalStates == { "committed", "flushed" }

LegalStateChange(from, to) ==
  \/ from = to
  \/ << from, to >> \in LifeCycle
  \/ from \notin TerminalStates /\ to = "flushed"

WithoutCounters(s) == [s EXCEPT !.cycle = 0, !.cyclesWithAnyStall = 0]

\* a further call of stepCycle changes nothing but the cycle counters
QuiescentAt(s) == WithoutCounters(stepCycle(s)) = WithoutCounters(s)

Quiescent == QuiescentAt(S)

\* ... and so does every call after it: the stages read the counters only to
\* stamp the times of the changes they make
QuiescentForEver == Quiescent => QuiescentAt(stepCycle(S))

InFlightStates == { "issued", "executing", "ready", "writeback" }

\* C18: every instruction that has been issued eventually becomes committed
\* or flushed under repeated stepCycle: no instruction stays for ever in
\* issued, executing, ready or writeback, and a misprediction flush is the
\* only way an issued instruction ends without committing.  Stated on the
\* states repeated stepCycle cannot leave: there no instruction is in flight;
\* and an instruction becomes flushed only in a commitCycle that retires a
\* mispredicted branch.
C18_NoInstructionLeftInFlight ==
  /\ Quiescent =>
       \A i \in DOMAIN instructions : instructions[i].state \notin InFlightStates
  /\ LET states == StageStates
     IN  \A k \in 1..(Len(states) - 1), i \in DOMAIN instructions :
            (/\ states[k].instructions[i].state # "flushed"
             /\ states[k + 1].instructions[i].state = "flushed")
            => k = 1 /\ MispredictedBranchRetires

\* getBranchAccuracy reporting 0 while no branch has executed
getBranchAccuracy_zeroWhenNone(s) ==
  IF s.branchesExecuted = 0
  THEN [numerator |-> 0, denominator |-> 1]
  ELSE [numerator |-> s.branchCorrect, denominator |-> s.branchesExecuted]

\* simulator-engine.ts getBranchAccuracy; the quotient is kept as a fraction
getBranchAccuracy(s) ==
  IF s.branchesExecuted = 0
  THEN [numerator |-> 1, denominator |-> 1]
  ELSE [numerator |-> s.branchCorrect, denominator |-> s.branchesExecuted]

\* C19: in every reachable state branchCorrect + mispredictionCount =
\* branchesExecuted and flushCount = mispredictionCount; the reported branch
\* accuracy is branchCorrect / branchesExecuted, and 1.0 when no branch has
\* executed.
C19_BranchCounters ==
  /\ branchCorrect + mispredictionCount = branchesExecuted
  /\ flushCount = mispredictionCount
  /\ LET accuracy == getBranchAccuracy(S)
     IN  /\ accuracy.denominator > 0
         /\ IF branchesExecuted = 0
            THEN accuracy.numerator = accuracy.denominator
            ELSE accuracy.numerator * branchesExecuted
                    = branchCorrect * accuracy.denominator

\* a run in which one branch was predicted correctly and another mispredicted
C19_Witness ==
  /\ branchCorrect >= 1
  /\ mispredictionCount >= 1
  /\ flushCount >= 1
  /\ getBranchAccuracy(S).numerator < getBranchAccuracy(S).denominator

\* simulator-engine.ts getSimulatorMetrics; quotients are kept as fractions
getSimulatorMetrics(s) ==
  [cycle |-> s.cycle,
   instructionsCommitted |-> s.instructionsCommitted,
   ipc |-> IF s.cycle > 0
           THEN [numerator |-> s.instructionsCommitted, denominator |-> s.cycle]
           ELSE [numerator |-> 0, denominator |-> 1],
   stallCycles |-> s.cyclesWithAnyStall,
   flushCount |-> s.flushCount,
   issueStalls |-> s.issueStalls,
   dataHazardStalls |-> s.dataHazardStalls,
   structuralHazardStalls |-> s.structuralHazardStalls,
   cyclesWithAnyStall |-> s.cyclesWithAnyStall,
   branchAccuracy |-> getBranchAccuracy(s)]

\* C20: the metrics query reports stall cycles broken out by cause: after a
\* stepCycle in which Issue reported a stall, issueStalls is larger than
\* before; after one in which Execute found a busy station with an unresolved
\* operand, dataHazardStalls is larger; after one in which a ready station
\* found no free functional unit, structuralHazardStalls is larger.
C20_StallsCountedByCause ==
  LET before == getSimulatorMetrics(S)
      after == getSimulatorMetrics(stepCycle(S))
      executeResult == executeCycle(AfterWriteBack)
      issueResult == issueCycle(executeResult.state)
  IN  /\ issueResult.issueStallOccurred
           => after.issueStalls > before.issueStalls
      /\ executeResult.dataHazardOccurred
           => after.dataHazardStalls > before.dataHazardStalls
      /\ executeResult.structuralHazardOccurred
           => after.structuralHazardStalls > before.structuralHazardStalls

\* in a call of stepCycle on the current state, Issue stalls, Execute reports
\* a hazard, or Commit flushes
StallInStep ==
  \/ issueCycle(AfterExecute).issueStallOccurred
  \/ executeCycle(AfterWriteBack).dataHazardOccurred
  \/ executeCycle(AfterWriteBack).structuralHazardOccurred
  \/ MispredictedBranchRetires

\* C21: every stepCycle call increases cycle by exactly 1, stalled or not,
\* and increases cyclesWithAnyStall by exactly 1 if in that call Issue
\* stalled, Execute reported a data or structural hazard, or Commit performed
\* a flush, and leaves it unchanged otherwise; hence cyclesWithAnyStall <=
\* cycle in every reachable state.
C21_CycleAndStallCounters ==
  /\ stepCycle(S).cycle = cycle + 1
  /\ stepCycle(S).cyclesWithAnyStall =
        cyclesWithAnyStall + (IF StallInStep THEN 1 ELSE 0)
  /\ cyclesWithAnyStall <= cycle

\* a step whose only stall is the flush of a mispredicted branch, after
\* cycles with and without stalls
C21_Witness ==
  /\ MispredictedBranchRetires
  /\ ~issueCycle(AfterExecute).issueStallOccurred
  /\ ~executeCycle(AfterWriteBack).dataHazardOccurred
  /\ ~executeCycle(AfterWriteBack).structuralHazardOccurred
  /\ stepCycle(S).cyclesWithAnyStall = cyclesWithAnyStall + 1
  /\ 0 < cyclesWithAnyStall /\ cyclesWithAnyStall < cycle

\* both timestamps are set, and the first is before the second
Before(first, second) == IsDef(first) /\ Val(first) < Val(second)

NotAfter(first, second) == IsDef(first) /\ Val(first) <= Val(second)

\* C22: for every instruction, issueTime < execStartTime <= execEndTime <
\* writebackTime < commitTime wherever the later timestamp is set: an
\* instruction never starts executing in the cycle it was issued, its result
\* is never broadcast in the cycle it was computed, and it never commits in
\* the cycle it was broadcast.
C22_TimestampsOrdered ==
  \A i \in DOMAIN instructions :
     LET inst == instructions[i]
     IN  /\ IsDef(inst.execStartTime) => Before(inst.issueTime, inst.execStartTime)
         /\ IsDef(inst.execEndTime) => NotAfter(inst.execStartTime, inst.execEndTime)
         /\ IsDef(inst.writebackTime) => Before(inst.execEndTime, inst.writebackTime)
         /\ IsDef(inst.commitTime) => Before(inst.writebackTime, inst.commitTime)

\* an odd address is aligned for no word size above one
Misaligned(address) == address % 2 = 1

\* C23: a LOAD or STORE whose effective address is not word-aligned is
\* surfaced to the caller as a fault at execute time: it never completes
\* silently by reading memory at that address or by later writing memory at
\* that address.  stepCycle has no fault to return; stated on what it does
\* return: no functional unit holds the result of a misaligned access, no
\* misaligned access is ready in the ROB, and memory has no misaligned
\* address.
C23_MisalignedAccessFaults ==
  /\ \A k \in 1..Len(functionalUnits) :
        (/\ functionalUnits[k].busy
         /\ functionalUnits[k].operation \in {Some("LOAD"), Some("STORE")}
         /\ IsDef(functionalUnits[k].address)
         /\ Misaligned(Val(functionalUnits[k].address)))
        => ~IsDef(functionalUnits[k].result)
  /\ \A k \in DOMAIN rob :
        (/\ rob[k].busy
         /\ rob[k].type \in {Some("LOAD"), Some("STORE")}
         /\ IsDef(rob[k].address)
         /\ Misaligned(Val(rob[k].address)))
        => ~rob[k].ready
  /\ \A address \in DOMAIN memory : ~Misaligned(address)

\* the queue of s holds no entry for a flushed instruction
NoFlushedQueued(s) ==
  \A k \in 1..Len(s.pendingBroadcasts) :
     s.instructions[s.pendingBroadcasts[k].instructionId].state # "flushed"

CheckpointOwners(s) ==
  { s.branchCheckpoints[k].instructionId : k \in 1..Len(s.branchCheckpoints) }

\* C25: a checkpoint exists exactly from the Issue of its branch until that
\* branch commits or is squashed: after a branch commits, its checkpoint is
\* no longer in branchCheckpoints, and after a misprediction flush
\* branchCheckpoints contains no checkpoint of a branch that was issued after
\* the mispredicted one.
C25_CheckpointLifetime ==
  /\ \A i \in DOMAIN instructions :
        i \in CheckpointOwners(S) <=>
           IsBranch(instructions[i].operation) /\ instructions[i].state \in InFlightStates
  /\ HeadRetiresAs({"BRANCH"}) =>
        HeadInstruction.id \notin CheckpointOwners(AfterCommit)
  /\ MispredictedBranchRetires =>
        \A i \in CheckpointOwners(AfterCommit) : i < HeadInstruction.id

\* issueCycle issues an instruction in this step
IssuesInStep ==
  IsDef(FirstIdle(AfterExecute)) /\ ~issueCycle(AfterExecute).issueStallOccurred

IssuedInStep == Val(FirstIdle(AfterExecute))

\* the checkpoints unresolved when issueCycle runs, oldest first
UnresolvedAtIssue ==
  Filter(AfterExecute.branchCheckpoints, LAMBDA cp : ~cp.resolved)

\* C26: when speculation is enabled, every instruction issued after a
\* conditional branch and before that branch's checkpoint resolves is marked
\* speculative (both the instruction and its ROB entry) and tagged with the
\* oldest unresolved checkpoint; an instruction issued while no checkpoint is
\* unresolved is not speculative.
C26_IssuedUnderBranchIsSpeculative ==
  (speculationEnabled /\ IssuesInStep) =>
     LET instruction == AfterIssue.instructions[IssuedInStep]
         entry == AfterIssue.rob[AfterExecute.robTail]
     IN  /\ entry.instructionId = Some(IssuedInStep)
         /\ IF UnresolvedAtIssue # << >>
            THEN /\ instruction.isSpeculative
                 /\ entry.isSpeculative
                 /\ entry.branchCheckpointId = Some(UnresolvedAtIssue[1].id)
            ELSE /\ ~instruction.isSpeculative
                 /\ ~entry.isSpeculative

\* the ROB indices from the checkpoint's tail snapshot up to the tail of s
FromSnapshotToTail(checkpoint, s) ==
  { (checkpoint.robTailSnapshot + d) % RobSize :
       d \in 0..(((s.robTail - checkpoint.robTailSnapshot) % RobSize) - 1) }

\* C27: a misprediction flush sets the RAT equal to the checkpoint's RAT
\* snapshot (the same register-to-ROB mappings as when the branch was
\* issued), sets robTail to the checkpoint's tail snapshot, and leaves every
\* ROB entry from the restored tail up to the pre-flush tail not busy and not
\* ready.
C27_FlushRestoresCheckpoint ==
  /\ MispredictedBranchRetires =>
        /\ AfterCommit.registerRenaming = HeadCheckpoint.ratSnapshot
        /\ AfterCommit.robTail = HeadCheckpoint.robTailSnapshot
        /\ \A i \in FromSnapshotToTail(HeadCheckpoint, S) :
              ~AfterCommit.rob[i].busy /\ ~AfterCommit.rob[i].ready
  /\ (IssuesInStep /\ IsBranch(instructions[IssuedInStep].operation)) =>
        LET checkpoint ==
              AfterIssue.branchCheckpoints[findCheckpoint(IssuedInStep, AfterIssue)]
        IN  /\ checkpoint.ratSnapshot = AfterExecute.registerRenaming
            /\ checkpoint.robTailSnapshot = AfterExecute.robTail

\* a mispredicted branch retires with younger instructions in the ROB and a
\* RAT that has changed since the branch was issued
C27_Witness ==
  /\ MispredictedBranchRetires
  /\ HeadCheckpoint.ratSnapshot # << >>
  /\ HeadCheckpoint.ratSnapshot # registerRenaming
  /\ Cardinality(FromSnapshotToTail(HeadCheckpoint, S)) >= 3
  /\ \E i \in FromSnapshotToTail(HeadCheckpoint, S) : i # robHead /\ rob[i].ready

\* the station or unit is busy with instruction i
BusyWith(slot, i) == slot.busy /\ slot.instructionId = Some(i)

\* C28: after a misprediction flush no reservation station and no functional
\* unit is busy with an instruction that was speculative before the flush or
\* that is in state flushed after it; stations and units holding
\* non-speculative instructions are unchanged by the flush.
C28_FlushFreesSpeculativeSlots ==
  MispredictedBranchRetires =>
    /\ \A i \in DOMAIN instructions :
          (instructions[i].isSpeculative \/ AfterCommit.instructions[i].state = "flushed")
          => /\ \A k \in 1..Len(reservationStations) :
                   ~BusyWith(AfterCommit.reservationStations[k], i)
             /\ \A k \in 1..Len(functionalUnits) :
                   ~BusyWith(AfterCommit.functionalUnits[k], i)
    /\ \A k \in 1..Len(reservationStations) :
          (\E i \in DOMAIN instructions :
              BusyWith(reservationStations[k], i) /\ ~instructions[i].isSpeculative)
          => AfterCommit.reservationStations[k] = reservationStations[k]
    /\ \A k \in 1..Len(functionalUnits) :
          (\E i \in DOMAIN instructions :
              BusyWith(functionalUnits[k], i) /\ ~instructions[i].isSpeculative)
          => AfterCommit.functionalUnits[k] = functionalUnits[k]

\* the flush finds a speculative instruction in a station, another in a unit,
\* and a non-speculative one in a station or unit
C28_Witness ==
  /\ MispredictedBranchRetires
  /\ \E k \in 1..Len(reservationStations), i \in DOMAIN instructions :
        BusyWith(reservationStations[k], i) /\ instructions[i].isSpeculative
  /\ \E k \in 1..Len(functionalUnits), i \in DOMAIN instructions :
        BusyWith(functionalUnits[k], i) /\ instructions[i].isSpeculative
  /\ \/ \E k \in 1..Len(reservationStations), i \in DOMAIN instructions :
           BusyWith(reservationStations[k], i) /\ ~instructions[i].isSpeculative
     \/ \E k \in 1..Len(functionalUnits), i \in DOMAIN instructions :
           BusyWith(functionalUnits[k], i) /\ ~instructions[i].isSpeculative

\* The register file and memory a program without branches has in program
\* order: the instructions run one after the other, each to completion, from
\* the initial register file and memory.
InProgramOrder(arch, inst) ==
  LET reg(name) == IF name = "" THEN 0 ELSE arch.registerFile[name]
      imm == OrElse(inst.immediate, 0)
      result ==
        CASE inst.operation = "ADD" -> reg(inst.src1) + reg(inst.src2)
          [] inst.operation = "SUB" -> reg(inst.src1) - reg(inst.src2)
          [] inst.operation = "MUL" -> reg(inst.src1) * reg(inst.src2)
          [] inst.operation = "DIV" ->
               IF reg(inst.src2) # 0
               THEN FloorDiv(reg(inst.src1), reg(inst.src2)) ELSE 0
          [] inst.operation = "LOAD" ->
               MapGet(arch.memory, reg(inst.src1) + imm, 0)
          [] OTHER -> 0
  IN  IF inst.operation = "STORE"
      THEN [arch EXCEPT !.memory = MapSet(@, reg(inst.dest) + imm, reg(inst.src1))]
      ELSE IF inst.dest = "" THEN arch
      ELSE [arch EXCEPT !.registerFile = MapSet(@, inst.dest, result)]

RECURSIVE BeforeInstruction(_)
BeforeInstruction(i) ==
  IF i = 0
  THEN [registerFile |-> createInitialState.registerFile,
        memory |-> createInitialState.memory]
  ELSE InProgramOrder(BeforeInstruction(i - 1), instructions[i - 1])

BranchFree == \A i \in DOMAIN instructions : ~IsBranch(instructions[i].operation)

\* the base register of a memory access: src1 of a LOAD, dest of a STORE
BaseOf(inst) == IF inst.operation = "LOAD" THEN inst.src1 ELSE inst.dest

\* C29: the effective address a LOAD or STORE uses equals its immediate plus
\* the value its base register has in program order, i.e. the value of the
\* latest older writer of that register, also when that writer has not yet
\* committed (the base register has a live RAT mapping) at Issue time; with
\* no base register the address is the immediate.  Stated for programs
\* without branches, on the address of every memory access in the ROB.
C29_AddressFromProgramOrderBase ==
  BranchFree =>
    \A k \in DOMAIN rob :
       (rob[k].busy /\ rob[k].type \in {Some("LOAD"), Some("STORE")}) =>
          LET inst == instructions[Val(rob[k].instructionId)]
              base == BaseOf(inst)
          IN  rob[k].address =
                 Some(OrElse(inst.immediate, 0)
                      + (IF base = "" THEN 0
                         ELSE BeforeInstruction(inst.id).registerFile[base]))

\* newQueue of writeBackCycle in this step (lines 17-27)
NewQueue == collectIntoQueue(AfterCommit)

NoDuplicates(queue) ==
  \A j, k \in 1..Len(queue) :
     queue[j].instructionId = queue[k].instructionId => j = k

\* a functional unit of s holds a computed result
HoldsResult(fu) == fu.busy /\ fu.cyclesRemaining = 0 /\ IsDef(fu.result)

UnitsOf(i, s) ==
  { k \in 1..Len(s.functionalUnits) : BusyWith(s.functionalUnits[k], i) }

StationsOf(i, s) ==
  { k \in 1..Len(s.reservationStations) : BusyWith(s.reservationStations[k], i) }

\* the stations dispatch clears in this step
DispatchedStations ==
  { k \in 1..Len(reservationStations) :
       AfterWriteBack.reservationStations[k].busy
       /\ ~AfterDispatch.reservationStations[k].busy }

\* dispatch took station k's instruction only under the conditions of
\* lines 68-93, and bound it to one unit of the station's class
DispatchedUnderConditions(k) ==
  LET rs == AfterWriteBack.reservationStations[k]
      id == Val(rs.instructionId)
  IN  /\ rs.busy /\ IsDef(rs.instructionId)
      /\ rs.qj = undefined /\ rs.qk = undefined
      /\ AfterWriteBack.instructions[id].state = "issued"
      /\ \E u \in 1..Len(functionalUnits) :
            /\ AfterWriteBack.functionalUnits[u].type = rs.type
            /\ ~AfterWriteBack.functionalUnits[u].busy
      /\ \E u \in 1..Len(functionalUnits) :
            /\ UnitsOf(id, AfterDispatch) = {u}
            /\ AfterDispatch.functionalUnits[u].type = rs.type
      /\ AfterDispatch.instructions[id].state = "executing"

\* no instruction is bound to two units, nor to a station and a unit, and
\* every busy station holds an instruction in state issued
BindingsExclusive(s) ==
  /\ \A i \in DOMAIN s.instructions :
        /\ Cardinality(UnitsOf(i, s)) <= 1
        /\ UnitsOf(i, s) = {} \/ StationsOf(i, s) = {}
  /\ \A k \in 1..Len(s.reservationStations) :
        s.reservationStations[k].busy =>
          /\ IsDef(s.reservationStations[k].instructionId)
          /\ s.instructions[Val(s.reservationStations[k].instructionId)].state
                = "issued"

C32_FreedStationWaitsACycle ==
  \A k \in DispatchedStations : ~AfterIssue.reservationStations[k].busy

\* operand (value, tag) after a broadcast of value for ROB index robTag
Woken(operand, robTag, value) ==
  IF operand.q = Some(RobTagName(robTag))
  THEN [v |-> Some(value), q |-> undefined]
  ELSE operand

\* the two source operands of a station
OperandJ(rs) == [v |-> rs.vj, q |-> rs.qj]

OperandK(rs) == [v |-> rs.vk, q |-> rs.qk]

\* the operand holds a resolved value or a pending tag, never both or neither
ValueOrTag(operand) == IsDef(operand.v) # IsDef(operand.q)

OperandsHoldValueOrTag(s) ==
  \A k \in 1..Len(s.reservationStations) :
     s.reservationStations[k].busy =>
       /\ ValueOrTag(OperandJ(s.reservationStations[k]))
       /\ ValueOrTag(OperandK(s.reservationStations[k]))

\* C33: the broadcast for ROB index r writes the value into ROB entry r and
\* marks it ready, and in every reservation station replaces each pending tag
\* equal to r by the value and clears the tag; the other ROB entries, operands
\* waiting on other tags and resolved operands are unchanged. In every busy
\* station each source operand holds exactly one of a value or a pending tag.
C33_BroadcastWakesWaitingOperands ==
  /\ NewQueue # << >> =>
        LET b == Head(NewQueue)
        IN  /\ AfterWriteBack.rob =
                  [AfterCommit.rob EXCEPT
                     ![b.robTag] = [@ EXCEPT !.value = Some(b.value),
                                             !.ready = TRUE]]
            /\ \A k \in 1..Len(reservationStations) :
                  LET before == AfterCommit.reservationStations[k]
                      after == AfterWriteBack.reservationStations[k]
                  IN  /\ OperandJ(after) = Woken(OperandJ(before), b.robTag, b.value)
                      /\ OperandK(after) = Woken(OperandK(before), b.robTag, b.value)
                      /\ after = [before EXCEPT !.vj = after.vj, !.qj = after.qj,
                                                 !.vk = after.vk, !.qk = after.qk]
  /\ OperandsHoldValueOrTag(S)
  /\ OperandsHoldValueOrTag(AfterWriteBack)

\* the broadcast resolves the second operand of one station while another
\* station keeps waiting on a different tag
C33_Witness ==
  /\ NewQueue # << >>
  /\ \E k \in 1..Len(reservationStations) :
        /\ AfterCommit.reservationStations[k].busy
        /\ AfterCommit.reservationStations[k].qk
              = Some(RobTagName(Head(NewQueue).robTag))
  /\ \E k \in 1..Len(reservationStations) :
        /\ AfterWriteBack.reservationStations[k].busy
        /\ IsDef(AfterWriteBack.reservationStations[k].qj)

\* the ROB indices the RAT maps register reg to
MappingsOf(reg, rat) ==
  { rat[k].robEntry : k \in { j \in 1..Len(rat) : rat[j].register = reg } }

OneMappingPerRegister(rat) ==
  \A j, k \in 1..Len(rat) : rat[j].register = rat[k].register => j = k

\* the instruction renames its destination at issue (line 199)
RenamesDestination(instruction) ==
  /\ instruction.dest # ""
  /\ instruction.operation # "STORE"
  /\ ~IsBranch(instruction.operation)

\* C34: in every reachable state the RAT holds at most one mapping per
\* register; issuing an instruction with a destination register (not a STORE
\* or branch) makes the RAT map that register to the instruction's ROB index,
\* replacing any earlier mapping and leaving the other registers' mappings,
\* and issuing a STORE or a branch leaves the RAT unchanged.
C34_OneRatMappingPerRegister ==
  /\ OneMappingPerRegister(registerRenaming)
  /\ IssuesInStep =>
        LET instruction == AfterIssue.instructions[IssuedInStep]
            before == AfterExecute.registerRenaming
            after == AfterIssue.registerRenaming
        IN  IF RenamesDestination(instruction)
            THEN /\ OneMappingPerRegister(after)
                 /\ MappingsOf(instruction.dest, after) = {Val(instruction.robEntry)}
                 /\ \A reg \in RegisterNames \ {instruction.dest} :
                       MappingsOf(reg, after) = MappingsOf(reg, before)
            ELSE after = before

\* an instruction is issued whose destination is already renamed to another
\* ROB entry
C34_Witness ==
  /\ IssuesInStep
  /\ RenamesDestination(AfterIssue.instructions[IssuedInStep])
  /\ MappingsOf(AfterIssue.instructions[IssuedInStep].dest,
                AfterExecute.registerRenaming) # {}
  /\ Val(AfterIssue.instructions[IssuedInStep].robEntry)
       \notin MappingsOf(AfterIssue.instructions[IssuedInStep].dest,
                         AfterExecute.registerRenaming)

\* a STORE or a branch is issued while the RAT holds mappings
C34_WitnessStoreOrBranch ==
  /\ IssuesInStep
  /\ ~RenamesDestination(AfterIssue.instructions[IssuedInStep])
  /\ AfterExecute.registerRenaming # << >>

\* the ROB indices from robHead up to (excluding) robTail, circularly
HeadToTail(s) ==
  { (s.robHead + d) % RobSize : d \in 0..(((s.robTail - s.robHead) % RobSize) - 1) }

BusyEntries(s) == { i \in DOMAIN s.rob : s.rob[i].busy }

\* C35: in every reachable state, also after a misprediction flush, the busy
\* ROB entries are exactly the entries from robHead up to (excluding) robTail,
\* and issueCycle allocates only an entry that is not busy.
C35_BusyEntriesBetweenHeadAndTail ==
  /\ BusyEntries(S) = HeadToTail(S)
  /\ IssuesInStep => ~AfterExecute.rob[AfterExecute.robTail].busy

\* instruction i holds the ROB entry its robEntry field names
OwnsRobEntry(i, s) ==
  /\ IsDef(s.instructions[i].robEntry)
  /\ s.rob[Val(s.instructions[i].robEntry)].busy
  /\ s.rob[Val(s.instructions[i].robEntry)].instructionId = Some(i)

\* C36: in every reachable state, every instruction in state issued,
\* executing, ready or writeback has a robEntry index whose ROB entry is busy
\* and bound to that instruction's id; a misprediction flush never clears the
\* ROB entry of an instruction it leaves in flight.
C36_InFlightInstructionOwnsRobEntry ==
  \A i \in DOMAIN instructions :
     instructions[i].state \in {"issued", "executing", "ready", "writeback"}
     => OwnsRobEntry(i, S)

\* the ROB indices the busy stations of s wait on
PendingTags(s) ==
  { r \in DOMAIN s.rob :
       \E k \in 1..Len(s.reservationStations) :
          /\ s.reservationStations[k].busy
          /\ \/ s.reservationStations[k].qj = Some(RobTagName(r))
             \/ s.reservationStations[k].qk = Some(RobTagName(r)) }

\* the ROB indices the RAT of s maps a register to
RenamedTo(s) ==
  { s.registerRenaming[k].robEntry : k \in 1..Len(s.registerRenaming) }

\* ROB entry r holds an instruction in flight
HoldsInFlight(r, s) ==
  /\ s.rob[r].busy
  /\ IsDef(s.rob[r].instructionId)
  /\ s.instructions[Val(s.rob[r].instructionId)].state
        \in {"issued", "executing", "ready", "writeback"}

\* ROB entry r holds an instruction whose result is still to be broadcast
AwaitsBroadcast(r, s) ==
  /\ HoldsInFlight(r, s)
  /\ ~s.rob[r].ready
  /\ s.instructions[Val(s.rob[r].instructionId)].state # "writeback"

\* C37: in every reachable state, every RAT mapping refers to a busy ROB entry
\* that holds an instruction in flight, and every pending tag (Qj/Qk) of a busy
\* reservation station refers to such an entry whose instruction has not yet
\* broadcast its result; no register and no station waits on a ROB entry that
\* is free, already committed or reallocated.
C37_TagsReferToLiveProducers ==
  /\ \A r \in RenamedTo(S) : HoldsInFlight(r, S)
  /\ \A r \in PendingTags(S) : AwaitsBroadcast(r, S)

\* a ready ROB entry belongs to an instruction that has written back
ReadyEntriesWrittenBack(s) ==
  \A r \in DOMAIN s.rob :
     (s.rob[r].busy /\ s.rob[r].ready) =>
        /\ IsDef(s.rob[r].instructionId)
        /\ s.instructions[Val(s.rob[r].instructionId)].state = "writeback"

\* the broadcast of this step does not write into a ROB entry that is bound to
\* another instruction than the one whose unit computed the value
BroadcastIntoOwnEntry ==
  (NewQueue # << >> /\ AfterCommit.rob[Head(NewQueue).robTag].busy) =>
     AfterCommit.rob[Head(NewQueue).robTag].instructionId
       = Some(Head(NewQueue).instructionId)

\* C38: in every reachable state, a ROB entry that is busy and ready is bound
\* to an instruction in state writeback, and the value a broadcast writes into
\* a busy entry is the result computed by the functional unit of the
\* instruction the entry is bound to; hence the value Commit writes for an
\* instruction is that instruction's own result.
C38_ReadyEntryHoldsOwnResult ==
  /\ ReadyEntriesWrittenBack(S)
  /\ BroadcastIntoOwnEntry

\* every instruction of the program has committed
AllCommitted ==
  \A i \in DOMAIN instructions : instructions[i].state = "committed"

\* a program of ADD, SUB, MUL and LOAD instructions without base register
ArithmeticAndDirectLoads ==
  \A i \in DOMAIN instructions :
     \/ instructions[i].operation \in {"ADD", "SUB", "MUL"}
     \/ instructions[i].operation = "LOAD" /\ instructions[i].src1 = ""

\* the register file and memory after the whole program in program order
AfterProgramInOrder == BeforeInstruction(Cardinality(DOMAIN instructions))

\* C39: for a branch-free program of ADD, SUB, MUL and directly addressed
\* LOAD instructions, the register file after all instructions have committed
\* equals the register file obtained by executing the instructions one at a
\* time in program order.
C39_RegisterFileAsInProgramOrder ==
  (ArithmeticAndDirectLoads /\ AllCommitted) =>
     \A r \in RegisterNames :
        MapGet(registerFile, r, 0) = MapGet(AfterProgramInOrder.registerFile, r, 0)

\* the ten-instruction program has committed, its last result being computed
\* from renamed registers
C39_Witness ==
  /\ ArithmeticAndDirectLoads /\ AllCommitted
  /\ Cardinality(DOMAIN instructions) > RobSize
  /\ \E i \in DOMAIN instructions : instructions[i].operation = "SUB"
  /\ MapGet(registerFile, "R6", 0) # 0

\* the program has run to completion and the pipeline is empty
ProgramDone ==
  /\ AllCommitted
  /\ instructionsCommitted = Cardinality(DOMAIN instructions)
  /\ \A k \in 1..Len(reservationStations) : ~reservationStations[k].busy
  /\ \A k \in 1..Len(functionalUnits) : ~functionalUnits[k].busy
  /\ \A r \in DOMAIN rob : ~rob[r].busy

====
